---- MODULE Spec2Model ----
(***************************************************************************)
(* The trial knowledge cache (trial_cache.py, MongoDB), the property graph *)
(* (graph_models.py, Neo4j) and the match fallback chain (app.py) of       *)
(* clinect.                                                                *)
(*                                                                         *)
(* Text is modelled as a tuple of one-character strings, so that           *)
(* formatting (f"{city}, {state}"), lower-casing and joining are computed  *)
(* and not assumed.  Time is counted in whole days.                        *)
(***************************************************************************)
EXTENDS Bags, FiniteSets, Integers, Sequences, TLC

VARIABLES
    now,             \* datetime.utcnow() / Cypher datetime(), in days
    trialNodes,      \* (:Trial) nodes, in creation order
    conditionNodes,  \* (:Condition) nodes
    locationNodes,   \* (:Location) nodes
    patientNodes,    \* (:Patient) nodes
    treats,          \* bag of (Trial)-[:TREATS]->(Condition), by node position
    locatedIn,       \* bag of (Trial)-[:LOCATED_IN]->(Location)
    hasCondition,    \* bag of (Patient)-[:HAS_CONDITION]->(Condition)
    livesIn,         \* bag of (Patient)-[:LIVES_IN]->(Location)
    savedTrial,      \* bag of (Patient)-[:SAVED_TRIAL {savedAt}]->(Trial)
    isSubtypeOf,     \* bag of (Condition)-[:IS_SUBTYPE_OF]->(Condition)
    cache,           \* the trials_cache collection, in insertion order
    last,            \* the operation performed last, its arguments and result
    inflight         \* the requests in progress: what each has still to do

graphVars == <<trialNodes, conditionNodes, locationNodes, patientNodes, treats,
               locatedIn, hasCondition, livesIn, savedTrial, isSubtypeOf>>
vars == <<now, trialNodes, conditionNodes, locationNodes, patientNodes, treats,
          locatedIn, hasCondition, livesIn, savedTrial, isSubtypeOf, cache, last, inflight>>

---------------------------------------------------------------------------
(* Text *)

Null == <<"NULL">>                       \* None, a Cypher null, an unset property
Truthy(s) == s # Null /\ s # <<>>         \* Python truth value of None / str / list
NoneText == <<"N", "o", "n", "e">>
Fmt(s) == IF s = Null THEN NoneText ELSE s          \* "{s}" inside an f-string
CommaSpace == <<",", " ">>

LowerChar(c) ==
    CASE c = "D" -> "d"
      [] c = "M" -> "m"
      [] c = "A" -> "a"
      [] c = "B" -> "b"
      [] OTHER -> c

RECURSIVE ToLower(_)
ToLower(s) == IF s = <<>> THEN <<>> ELSE <<LowerChar(Head(s))>> \o ToLower(Tail(s))

RECURSIVE Join(_, _)
Join(sep, parts) ==
    IF parts = <<>> THEN <<>>
    ELSE IF Len(parts) = 1 THEN parts[1]
    ELSE parts[1] \o sep \o Join(sep, Tail(parts))

Range(s) == {s[i] : i \in DOMAIN s}

---------------------------------------------------------------------------
(* The graph store *)

Graph ==
    [trials |-> trialNodes, conditions |-> conditionNodes,
     locations |-> locationNodes, patients |-> patientNodes,
     treats |-> treats, locatedIn |-> locatedIn, hasCondition |-> hasCondition,
     livesIn |-> livesIn, savedTrial |-> savedTrial, isSubtypeOf |-> isSubtypeOf]

EmptyGraph ==
    [trials |-> <<>>, conditions |-> <<>>, locations |-> <<>>, patients |-> <<>>,
     treats |-> EmptyBag, locatedIn |-> EmptyBag, hasCondition |-> EmptyBag,
     livesIn |-> EmptyBag, savedTrial |-> EmptyBag, isSubtypeOf |-> EmptyBag]

SetGraph(g) ==
    /\ trialNodes' = g.trials
    /\ conditionNodes' = g.conditions
    /\ locationNodes' = g.locations
    /\ patientNodes' = g.patients
    /\ treats' = g.treats
    /\ locatedIn' = g.locatedIn
    /\ hasCondition' = g.hasCondition
    /\ livesIn' = g.livesIn
    /\ savedTrial' = g.savedTrial
    /\ isSubtypeOf' = g.isSubtypeOf

\* MATCH (t:Trial {nctId: $nct_id}) and its like: the positions of the matching nodes
MatchTrial(g, nct_id) == {i \in DOMAIN g.trials : g.trials[i].nctId = nct_id}
MatchCondition(g, name) == {i \in DOMAIN g.conditions : g.conditions[i].name = name}
MatchLocation(g, location_id) ==
    {i \in DOMAIN g.locations : g.locations[i].locationId = location_id}
MatchPatient(g, user_id) == {i \in DOMAIN g.patients : g.patients[i].userId = user_id}

\* MERGE (a)-[r:TYPE]->(b) for every matched pair: create the edge only when absent
MergeRelCreateAlways(edges, pairs) == edges (+) SetToBag(pairs)
MergeRel(edges, pairs) == edges (+) SetToBag({p \in pairs : ~BagIn(p, edges)})

Pairs(from, to) == {[from |-> i, to |-> j] : i \in from, j \in to}

create_trial_node_create(g, t, nct_id, title, status, phase) ==
    [g EXCEPT !.trials = Append(g.trials,
        [nctId |-> nct_id, title |-> title, status |-> status,
         phase |-> IF phase = Null THEN <<>> ELSE phase, updatedAt |-> t])]

create_trial_node(g, t, nct_id, title, status, phase) ==
    LET merged == IF MatchTrial(g, nct_id) # {} THEN g.trials
                  ELSE Append(g.trials, [nctId |-> nct_id, title |-> Null,
                                         status |-> Null, phase |-> Null,
                                         updatedAt |-> t])
    IN [g EXCEPT !.trials =
          [i \in DOMAIN merged |->
             IF merged[i].nctId = nct_id
             THEN [merged[i] EXCEPT !.title = title, !.status = status,
                                    !.phase = IF phase = Null THEN <<>> ELSE phase,
                                    !.updatedAt = t]
             ELSE merged[i]]]

create_condition_node_create(g, condition_name, category) ==
    [g EXCEPT !.conditions =
        Append(g.conditions, [name |-> condition_name, category |-> category,
                              nameNormalized |-> ToLower(condition_name)])]

create_condition_node(g, condition_name, category) ==
    LET merged == IF MatchCondition(g, condition_name) # {} THEN g.conditions
                  ELSE Append(g.conditions, [name |-> condition_name,
                                             category |-> Null,
                                             nameNormalized |-> Null])
    IN [g EXCEPT !.conditions =
          [i \in DOMAIN merged |->
             IF merged[i].name = condition_name
             THEN [merged[i] EXCEPT !.category = category,
                                    !.nameNormalized = ToLower(condition_name)]
             ELSE merged[i]]]

location_id_of_country(city, state, country) ==
    IF Truthy(country) THEN Fmt(city) \o CommaSpace \o Fmt(country)
    ELSE Fmt(city) \o CommaSpace \o Fmt(state)

\* location_id = f"{city}, {state}" if state else f"{city}, {country}"
location_id_of(city, state, country) ==
    IF Truthy(state) THEN Fmt(city) \o CommaSpace \o Fmt(state)
    ELSE Fmt(city) \o CommaSpace \o Fmt(country)

create_location_node(g, city, state, country, lat, lon) ==
    LET location_id == location_id_of(city, state, country)
        merged == IF MatchLocation(g, location_id) # {} THEN g.locations
                  ELSE Append(g.locations, [locationId |-> location_id,
                                            city |-> Null, state |-> Null,
                                            country |-> Null, latitude |-> Null,
                                            longitude |-> Null])
    IN [g EXCEPT !.locations =
          [i \in DOMAIN merged |->
             IF merged[i].locationId = location_id
             THEN [merged[i] EXCEPT !.city = city, !.state = state,
                                    !.country = country, !.latitude = lat,
                                    !.longitude = lon]
             ELSE merged[i]]]

create_patient_node(g, t, user_id, age, gender) ==
    LET merged == IF MatchPatient(g, user_id) # {} THEN g.patients
                  ELSE Append(g.patients, [userId |-> user_id, age |-> Null,
                                           gender |-> Null, updatedAt |-> t])
    IN [g EXCEPT !.patients =
          [i \in DOMAIN merged |->
             IF merged[i].userId = user_id
             THEN [merged[i] EXCEPT !.age = age, !.gender = gender,
                                    !.updatedAt = t]
             ELSE merged[i]]]

link_trial_to_condition_replacing(g, nct_id, condition_name) ==
    [g EXCEPT !.treats =
        SetToBag(Pairs(MatchTrial(g, nct_id), MatchCondition(g, condition_name)))]

link_trial_to_condition(g, nct_id, condition_name) ==
    [g EXCEPT !.treats =
        MergeRel(g.treats, Pairs(MatchTrial(g, nct_id),
                                 MatchCondition(g, condition_name)))]

link_trial_to_location(g, nct_id, location_id) ==
    [g EXCEPT !.locatedIn =
        MergeRel(g.locatedIn, Pairs(MatchTrial(g, nct_id),
                                    MatchLocation(g, location_id)))]

\* MATCH (p) MERGE (c:Condition {name}) MERGE (p)-[:HAS_CONDITION]->(c): the
\* Condition is merged (with the name alone) once per matched patient row
link_patient_to_condition(g, user_id, condition_name) ==
    IF MatchPatient(g, user_id) = {} THEN g
    ELSE LET conds == IF MatchCondition(g, condition_name) # {} THEN g.conditions
                      ELSE Append(g.conditions, [name |-> condition_name,
                                                 category |-> Null,
                                                 nameNormalized |-> Null])
             g1 == [g EXCEPT !.conditions = conds]
         IN [g1 EXCEPT !.hasCondition =
                MergeRel(g.hasCondition, Pairs(MatchPatient(g1, user_id),
                                               MatchCondition(g1, condition_name)))]

link_patient_to_location(g, user_id, location_id) ==
    [g EXCEPT !.livesIn =
        MergeRel(g.livesIn, Pairs(MatchPatient(g, user_id),
                                  MatchLocation(g, location_id)))]

\* MERGE (p)-[r:SAVED_TRIAL {savedAt: datetime()}]->(t): the pattern that must
\* already exist includes the property savedAt = the time of this call
link_patient_saved_trial(g, t, user_id, nct_id) ==
    [g EXCEPT !.savedTrial =
        MergeRel(g.savedTrial,
                 {[from |-> p.from, to |-> p.to, savedAt |-> t] :
                    p \in Pairs(MatchPatient(g, user_id), MatchTrial(g, nct_id))})]

link_condition_hierarchy(g, child_condition, parent_condition) ==
    [g EXCEPT !.isSubtypeOf =
        MergeRel(g.isSubtypeOf, Pairs(MatchCondition(g, child_condition),
                                      MatchCondition(g, parent_condition)))]

---------------------------------------------------------------------------
(* graph_models.py: find_matching_trials *)

MatchedConditionsExactName(g, i, conditions) ==
    {j \in DOMAIN g.conditions :
        /\ BagIn([from |-> i, to |-> j], g.treats)
        /\ g.conditions[j].name \in Range(conditions)}

\* OPTIONAL MATCH (t)-[:TREATS]->(c:Condition)
\* WHERE c.name IN $conditions OR c.nameNormalized IN $conditions_normalized
\* (a null nameNormalized makes the second test null, never true)
MatchedConditions(g, i, conditions) ==
    {j \in DOMAIN g.conditions :
        /\ BagIn([from |-> i, to |-> j], g.treats)
        /\ \/ g.conditions[j].name \in Range(conditions)
           \/ /\ g.conditions[j].nameNormalized # Null
              /\ g.conditions[j].nameNormalized \in
                    {ToLower(c) : c \in Range(conditions)}}

\* OPTIONAL MATCH (t)-[:LOCATED_IN]->(l:Location {locationId: $location_id})
MatchedLocations(g, i, location_id) ==
    {j \in MatchLocation(g, location_id) :
        BagIn([from |-> i, to |-> j], g.locatedIn)}

matchScore(g, i, conditions, location_id) ==
    (IF conditions # <<>> THEN Cardinality(MatchedConditions(g, i, conditions)) * 10
     ELSE 0)
    + (IF Truthy(location_id)
       THEN Cardinality(MatchedLocations(g, i, location_id)) * 5
       ELSE 0)

\* WHERE matchScore > 0
ScoreKeptAlways(score) == TRUE
ScoreKept(score) == score > 0

\* MATCH (t:Trial) WHERE t.status = $status ... WHERE matchScore > 0
MatchRows(g, conditions, location_id, status) ==
    {i \in DOMAIN g.trials :
        /\ g.trials[i].status = status
        /\ ScoreKept(matchScore(g, i, conditions, location_id))}

\* ORDER BY matchScore DESC: `first` may stand before `second`
OrderedAscending(first, second) == first <= second
Ordered(first, second) == first >= second

\* LIMIT $limit
LimitIgnored(rows, limit) == rows
Limit(rows, limit) == SubSeq(rows, 1, IF limit < Len(rows) THEN limit ELSE Len(rows))

\* Every list the query may return: rows of equal score come in any order.
find_matching_trials(g, conditions, location_id, status, limit) ==
    LET rows == MatchRows(g, conditions, location_id, status)
        score(i) == matchScore(g, i, conditions, location_id)
        orders == {o \in [1..Cardinality(rows) -> rows] :
                     /\ \A a, b \in DOMAIN o : o[a] = o[b] => a = b
                     /\ \A a, b \in DOMAIN o :
                           a < b => Ordered(score(o[a]), score(o[b]))}
    IN {Limit([k \in DOMAIN o |->
                  [nctId |-> g.trials[o[k]].nctId,
                   title |-> g.trials[o[k]].title,
                   status |-> g.trials[o[k]].status,
                   phase |-> g.trials[o[k]].phase,
                   matchScore |-> score(o[k])]], limit) : o \in orders}

---------------------------------------------------------------------------
(* graph_models.py: find_related_trials *)

\* the status text 'RECRUITING'
RECRUITING == <<"R">>

\* every order of `rows` in which no row stands before one of a higher score
\* (ORDER BY ... DESC; rows of equal score come in any order)
Descending(rows, score(_)) ==
    {o \in [1..Cardinality(rows) -> rows] :
        /\ \A a, b \in DOMAIN o : o[a] = o[b] => a = b
        /\ \A a, b \in DOMAIN o : a < b => score(o[a]) >= score(o[b])}

\* (t1)-[:TREATS]->(c:Condition)<-[:TREATS]-(t2); collect(DISTINCT c.name)
sharedConditions(g, i, j) ==
    {g.conditions[c].name : c \in {c \in DOMAIN g.conditions :
        /\ BagIn([from |-> i, to |-> c], g.treats)
        /\ BagIn([from |-> j, to |-> c], g.treats)}}

\* (t1)-[:LOCATED_IN]->(l:Location)<-[:LOCATED_IN]-(t2);
\* collect(DISTINCT l.locationId)
sharedLocations(g, i, j) ==
    {g.locations[l].locationId : l \in {l \in DOMAIN g.locations :
        /\ BagIn([from |-> i, to |-> l], g.locatedIn)
        /\ BagIn([from |-> j, to |-> l], g.locatedIn)}}

\* The rows after the first OPTIONAL MATCH and WITH: t2 is bound to the other
\* trials that treat a condition of t1; when there is none, the one row has
\* t2 = null, written 0.  The second OPTIONAL MATCH has t2 already bound: it
\* finds no path for a null t2 and never binds a new trial.
RelatedPartners(g, i, nct_id) ==
    LET found == {j \in DOMAIN g.trials :
                     /\ g.trials[j].nctId # nct_id
                     /\ sharedConditions(g, i, j) # {}}
    IN IF found = {} THEN {0} ELSE found

relationshipScore(g, i, j) ==
    IF j = 0 THEN 0
    ELSE Cardinality(sharedConditions(g, i, j)) * 3
         + Cardinality(sharedLocations(g, i, j))

\* Every list the query may return.  nctId is unique, so MATCH (t1:Trial
\* {nctId: $nct_id}) gives at most one t1.
find_related_trials(g, nct_id, limit) ==
    IF MatchTrial(g, nct_id) = {} THEN {<<>>}
    ELSE LET i == CHOOSE i \in MatchTrial(g, nct_id) : TRUE
             score(j) == relationshipScore(g, i, j)
             rows == {j \in RelatedPartners(g, i, nct_id) : score(j) > 0}
         IN {Limit([k \in DOMAIN o |->
                      [nctId |-> g.trials[o[k]].nctId,
                       title |-> g.trials[o[k]].title,
                       status |-> g.trials[o[k]].status,
                       phase |-> g.trials[o[k]].phase,
                       sharedConditions |-> sharedConditions(g, i, o[k]),
                       sharedLocations |-> sharedLocations(g, i, o[k]),
                       relationshipScore |-> score(o[k])]], limit) :
               o \in Descending(rows, score)}

---------------------------------------------------------------------------
(* graph_models.py: get_patient_recommendations *)

\* OPTIONAL MATCH (p)-[:HAS_CONDITION]->(pc:Condition)
PatientConditions(g, p) ==
    {c \in DOMAIN g.conditions : BagIn([from |-> p, to |-> c], g.hasCondition)}

\* OPTIONAL MATCH (t:Trial)-[:TREATS]->(pc) WHERE t.status = 'RECRUITING':
\* the trials bound to t for one pc; {0} (t = null) when there is none
RecruitingTrials(g, c) ==
    LET found == {t \in DOMAIN g.trials :
                     /\ BagIn([from |-> t, to |-> c], g.treats)
                     /\ g.trials[t].status = RECRUITING}
    IN IF found = {} THEN {0} ELSE found

\* OPTIONAL MATCH (p)-[:SAVED_TRIAL]->(saved:Trial)
\* WHERE t <> saved OR saved IS NULL: the values bound to saved for one row;
\* {0} (saved = null) when no saved trial passes the WHERE, so the row stays
SavedBindings(g, p, t) ==
    LET found == {s \in DOMAIN g.trials :
                     /\ \E e \in BagToSet(g.savedTrial) : e.from = p /\ e.to = s
                     /\ t # 0
                     /\ t # s}
    IN IF found = {} THEN {0} ELSE found

\* WITH p, t, collect(DISTINCT pc.name) as matchingConditions: the names
\* collected for the group of t (t = 0: the group of the rows without a trial)
matchingConditions(g, p, t) ==
    {g.conditions[c].name : c \in {c \in PatientConditions(g, p) :
        /\ t \in RecruitingTrials(g, c)
        /\ SavedBindings(g, p, t) # {}}}

\* Every list the query may return.  userId is unique, so MATCH (p:Patient
\* {userId: $user_id}) gives at most one p.  The row of the group t = null has
\* null for every property of t.
get_patient_recommendations(g, user_id, limit) ==
    IF MatchPatient(g, user_id) = {} THEN {<<>>}
    ELSE LET p == CHOOSE p \in MatchPatient(g, user_id) : TRUE
             score(t) == Cardinality(matchingConditions(g, p, t))
             rows == {t \in 0..Len(g.trials) : score(t) > 0}
         IN {Limit([k \in DOMAIN o |->
                      IF o[k] = 0
                      THEN [nctId |-> Null, title |-> Null, status |-> Null,
                            phase |-> Null,
                            matchingConditions |-> matchingConditions(g, p, 0),
                            matchScore |-> score(0)]
                      ELSE [nctId |-> g.trials[o[k]].nctId,
                            title |-> g.trials[o[k]].title,
                            status |-> g.trials[o[k]].status,
                            phase |-> g.trials[o[k]].phase,
                            matchingConditions |->
                               matchingConditions(g, p, o[k]),
                            matchScore |-> score(o[k])]], limit) :
               o \in Descending(rows, score)}

---------------------------------------------------------------------------
(* trial_cache.py: projection of a registry record into the graph, and the cache *)

CACHE_EXPIRATION_DAYS == 7

\* A registry record (trial_data): the fields of protocolSection the code reads.
\* A text field that is absent from the record is Null and .get(key, default)
\* supplies the default; an absent list of conditions or locations is written
\* <<>>, which is what .get(key, []) makes of it.  `shape` tells whether
\* protocolSection is a JSON object ("object"; an absent key reads as {}) or is
\* present with the value null ("null"); `object` tells whether an entry of
\* locations is a JSON object.
Get(field, default) == IF field = Null THEN default ELSE field

Study(nct_id, title, status, phases, conditions, locations) ==
    [shape |-> "object",
     nctId |-> nct_id, briefTitle |-> title, overallStatus |-> status,
     phases |-> phases, conditions |-> conditions, locations |-> locations]

Loc(city, state, country) ==
    [object |-> TRUE, city |-> city, state |-> state, country |-> country]

\* {'protocolSection': None}
NullProtocolSection ==
    [Study(Null, Null, Null, Null, <<>>, <<>>) EXCEPT !.shape = "null"]

\* a location entry that is not an object (a string, a number, null)
NotAnObject == [object |-> FALSE, city |-> Null, state |-> Null, country |-> Null]

\* .get on None: protocol.get(...) when protocolSection is null
ProtocolGetRaises(trial_data) == trial_data.shape = "null"

\* loc.get(...) raises for the first entry that is not an object
LocGetRaises(locations) == \E k \in DOMAIN locations : ~locations[k].object

\* the graph calls sync_trial_to_neo4j makes for one condition / one location
RECURSIVE ConditionCalls(_, _)
ConditionCalls(nct_id, conditions) ==
    IF conditions = <<>> THEN <<>>
    ELSE (IF Truthy(Head(conditions))
          THEN <<[f |-> "create_condition_node", name |-> Head(conditions)],
                 [f |-> "link_trial_to_condition", nct_id |-> nct_id,
                  name |-> Head(conditions)]>>
          ELSE <<>>) \o ConditionCalls(nct_id, Tail(conditions))

RECURSIVE LocationCalls(_, _)
LocationCalls(nct_id, locations) ==
    IF locations = <<>> THEN <<>>
    ELSE IF ~Head(locations).object THEN <<>>
    ELSE LET city == Get(Head(locations).city, <<>>)
             state == Get(Head(locations).state, <<>>)
             country == Get(Head(locations).country, <<>>)
         IN (IF Truthy(city) /\ Truthy(state)
             THEN <<[f |-> "create_location_node", city |-> city, state |-> state,
                     country |-> <<"U", "S", "A">>],
                    [f |-> "link_trial_to_location", nct_id |-> nct_id,
                     location_id |-> Fmt(city) \o CommaSpace \o Fmt(state)]>>
             ELSE IF Truthy(city) /\ Truthy(country)
             THEN <<[f |-> "create_location_node", city |-> city, state |-> Null,
                     country |-> country],
                    [f |-> "link_trial_to_location", nct_id |-> nct_id,
                     location_id |-> Fmt(city) \o CommaSpace \o Fmt(country)]>>
             ELSE <<>>) \o LocationCalls(nct_id, Tail(locations))

SyncCalls(trial_data) ==
    <<[f |-> "create_trial_node", nct_id |-> trial_data.nctId,
       title |-> Get(trial_data.briefTitle, <<>>),
       status |-> Get(trial_data.overallStatus, <<>>),
       phase |-> Get(trial_data.phases, <<>>)]>>
    \o ConditionCalls(trial_data.nctId, trial_data.conditions)
    \o LocationCalls(trial_data.nctId, trial_data.locations)

GraphCall(g, t, c) ==
    CASE c.f = "create_trial_node" ->
           create_trial_node(g, t, c.nct_id, c.title, c.status, c.phase)
      [] c.f = "create_condition_node" -> create_condition_node(g, c.name, Null)
      [] c.f = "link_trial_to_condition" -> link_trial_to_condition(g, c.nct_id, c.name)
      [] c.f = "create_location_node" ->
           create_location_node(g, c.city, c.state, c.country, Null, Null)
      [] c.f = "link_trial_to_location" ->
           link_trial_to_location(g, c.nct_id, c.location_id)

\* the first n calls of `calls`, in order
RECURSIVE RunCalls(_, _, _, _)
RunCalls(g, t, calls, n) ==
    IF n = 0 \/ calls = <<>> THEN g
    ELSE RunCalls(GraphCall(g, t, Head(calls)), t, Tail(calls), n - 1)

\* the except clause formats
\* trial_data.get('protocolSection', {}).get('identificationModule', {}) for its
\* message: that raises again when protocolSection is null
HandlerRaises(trial_data) == ProtocolGetRaises(trial_data)

\* sync_trial_to_neo4j: `up` is the number of graph calls the store answers before
\* it fails (a failure raises inside the try and the function returns False).
\* `raised` tells that an exception left the function.
sync_trial_to_neo4j(g, t, trial_data, up) ==
    IF ProtocolGetRaises(trial_data)
    THEN [graph |-> g, ret |-> FALSE, raised |-> HandlerRaises(trial_data)]
    ELSE IF ~Truthy(trial_data.nctId)
    THEN [graph |-> g, ret |-> FALSE, raised |-> FALSE]
    ELSE LET calls == SyncCalls(trial_data)
         IN [graph |-> RunCalls(g, t, calls, up),
             ret |-> up >= Len(calls) /\ ~LocGetRaises(trial_data.locations),
             raised |-> FALSE]

RECURSIVE searchable_locations(_)
searchable_locations(locations) ==
    IF locations = <<>> THEN <<>>
    ELSE IF ~Head(locations).object THEN <<>>
    ELSE LET city == Get(Head(locations).city, <<>>)
             state == Get(Head(locations).state, <<>>)
             country == Get(Head(locations).country, <<>>)
         IN (IF Truthy(city) /\ Truthy(state)
             THEN <<Fmt(city) \o CommaSpace \o Fmt(state)>>
             ELSE IF Truthy(city) /\ Truthy(country)
             THEN <<Fmt(city) \o CommaSpace \o Fmt(country)>>
             ELSE <<>>) \o searchable_locations(Tail(locations))

cache_doc(t, trial_data) ==
    [nctId |-> trial_data.nctId,
     protocolSection |-> trial_data,
     cachedAt |-> t,
     searchableFields |->
        [conditions |-> trial_data.conditions,
         status |-> Get(trial_data.overallStatus, <<>>),
         phase |-> Get(trial_data.phases, <<>>),
         locations |-> searchable_locations(trial_data.locations)]]

FindDocs(docs, nct_id) == {i \in DOMAIN docs : docs[i].nctId = nct_id}
First(S) == CHOOSE i \in S : \A j \in S : i <= j

\* trials.update_one({'nctId': nct_id}, {'$set': doc}, upsert=True)
update_one_insert(docs, doc) == Append(docs, doc)
update_one_upsert(docs, doc) ==
    IF FindDocs(docs, doc.nctId) = {} THEN Append(docs, doc)
    ELSE [docs EXCEPT ![First(FindDocs(docs, doc.nctId))] = doc]

\* trials.delete_one({'nctId': nct_id})
RemoveAt(docs, k) ==
    SubSeq(docs, 1, k - 1) \o SubSeq(docs, k + 1, Len(docs))
delete_one_skipped(docs, nct_id) == docs
delete_one(docs, nct_id) ==
    IF FindDocs(docs, nct_id) = {} THEN docs
    ELSE RemoveAt(docs, First(FindDocs(docs, nct_id)))

\* sync_trial_to_neo4j(trial_data) is called for its effect and its result is
\* dropped: return True
CachedIfSynced(synced) == synced
Cached(synced) == TRUE

\* cache_trial: `mongoUp` says whether update_one succeeds, `up` as in
\* sync_trial_to_neo4j.  Returns the two stores and the function's result;
\* `raised` tells that an exception left the function (the field extraction
\* stands before the try).
cache_trial(docs, g, t, trial_data, mongoUp, up) ==
    IF ProtocolGetRaises(trial_data)
    THEN [cache |-> docs, graph |-> g, ret |-> FALSE, raised |-> TRUE]
    ELSE IF ~Truthy(trial_data.nctId)
    THEN [cache |-> docs, graph |-> g, ret |-> FALSE, raised |-> FALSE]
    ELSE IF LocGetRaises(trial_data.locations)
    THEN [cache |-> docs, graph |-> g, ret |-> FALSE, raised |-> TRUE]
    ELSE IF ~mongoUp
    THEN [cache |-> docs, graph |-> g, ret |-> FALSE, raised |-> FALSE]
    ELSE [cache |-> update_one_upsert(docs, cache_doc(t, trial_data)),
          graph |-> sync_trial_to_neo4j(g, t, trial_data, up).graph,
          ret |-> Cached(sync_trial_to_neo4j(g, t, trial_data, up).ret),
          raised |-> FALSE]

Expired(doc, t) == doc.cachedAt < t - CACHE_EXPIRATION_DAYS

\* get_cached_trial: the collection afterwards and what is returned
get_cached_trial(docs, t, nct_id) ==
    IF FindDocs(docs, nct_id) = {}
    THEN [cache |-> docs, outcome |-> "absent"]
    ELSE LET trial == docs[First(FindDocs(docs, nct_id))]
         IN IF Expired(trial, t)
            THEN [cache |-> delete_one(docs, nct_id), outcome |-> "expired"]
            ELSE [cache |-> docs, outcome |-> "hit", trial |-> trial]

\* {'$regex': pattern, '$options': 'i'} on one string.  Of the regular
\* expression syntax the model has literal characters and '.', which stands
\* for any one character; the match may begin anywhere in the text.
RegexMatchesAt(pattern, text, pos) ==
    \A k \in DOMAIN pattern :
       \/ pattern[k] = "."
       \/ LowerChar(pattern[k]) = LowerChar(text[pos + k - 1])

RegexSearch(pattern, text) ==
    \E pos \in 1..(Len(text) - Len(pattern) + 1) :
       RegexMatchesAt(pattern, text, pos)

\* a query on an array field holds when one element matches
AnyElementMatches(pattern, list) ==
    \E k \in DOMAIN list : RegexSearch(pattern, list[k])

\* the query document built by search_cached_trials
SearchQuery(doc, t, condition, location, status) ==
    /\ Truthy(condition) =>
          AnyElementMatches(condition, doc.searchableFields.conditions)
    /\ Truthy(location) =>
          AnyElementMatches(location, doc.searchableFields.locations)
    /\ Truthy(status) => doc.searchableFields.status = status
    /\ doc.cachedAt >= t - CACHE_EXPIRATION_DAYS

\* cursor.limit(n): the first n documents; limit(0) sets no limit
CursorLimit(found, limit) ==
    IF limit = 0 THEN found
    ELSE SubSeq(found, 1, IF limit < Len(found) THEN limit ELSE Len(found))

\* the documents at the positions of `picked`, in collection order
RECURSIVE SelectDocs(_, _, _)
SelectDocs(docs, picked, k) ==
    IF k > Len(docs) THEN <<>>
    ELSE (IF k \in picked THEN <<docs[k]>> ELSE <<>>)
         \o SelectDocs(docs, picked, k + 1)

\* clear_expired_cache: delete_many({'cachedAt': {'$lt': expiration}}) and its
\* deleted_count
clear_expired_cache(docs, t) ==
    [cache |-> SelectSeq(docs, LAMBDA doc : ~Expired(doc, t)),
     ret |-> Cardinality({k \in DOMAIN docs : Expired(docs[k], t)})]

\* clear_all_cache: delete_many({}) and its deleted_count
clear_all_cache(docs) == [cache |-> <<>>, ret |-> Len(docs)]

\* search_cached_trials: list(trials.find(query).limit(limit)).  No sort is
\* given, so the documents come in the collection's natural order.
search_cached_trials(docs, t, condition, location, status, limit) ==
    CursorLimit(SelectDocs(docs,
                           {k \in DOMAIN docs :
                               SearchQuery(docs[k], t, condition, location, status)},
                           1),
                limit)

(* sync_to_graph.py: sync_trials_from_mongo *)

\* location_str.split(', '): the pieces between the occurrences of ", ", found
\* from the left
FirstCommaSpace(s) ==
    LET hits == {i \in 1..(Len(s) - 1) : s[i] = "," /\ s[i + 1] = " "}
    IN IF hits = {} THEN 0 ELSE First(hits)

RECURSIVE Split(_)
Split(s) ==
    IF FirstCommaSpace(s) = 0 THEN <<s>>
    ELSE <<SubSeq(s, 1, FirstCommaSpace(s) - 1)>>
         \o Split(SubSeq(s, FirstCommaSpace(s) + 2, Len(s)))

\* the graph calls of the loop over searchableFields.locations
RECURSIVE BulkLocationCalls(_, _)
BulkLocationCalls(nct_id, locations) ==
    IF locations = <<>> THEN <<>>
    ELSE LET location_str == Head(locations)
             parts == Split(location_str)
             city == parts[1]
             state_or_country == parts[2]
         IN (IF Truthy(location_str) /\ FirstCommaSpace(location_str) # 0
             THEN <<IF Truthy(state_or_country) /\ Len(state_or_country) = 2
                    THEN [f |-> "create_location_node", city |-> city,
                          state |-> state_or_country,
                          country |-> <<"U", "S", "A">>]
                    ELSE [f |-> "create_location_node", city |-> city,
                          state |-> Null, country |-> state_or_country],
                    [f |-> "link_trial_to_location", nct_id |-> nct_id,
                     location_id |-> location_str]>>
             ELSE <<>>) \o BulkLocationCalls(nct_id, Tail(locations))

\* the graph calls for one document of the cache
BulkCalls(trial_doc) ==
    <<[f |-> "create_trial_node", nct_id |-> trial_doc.nctId,
       title |-> Get(trial_doc.protocolSection.briefTitle, <<>>),
       status |-> Get(trial_doc.protocolSection.overallStatus, <<>>),
       phase |-> Get(trial_doc.protocolSection.phases, <<>>)]>>
    \o ConditionCalls(trial_doc.nctId, trial_doc.searchableFields.conditions)
    \o BulkLocationCalls(trial_doc.nctId, trial_doc.searchableFields.locations)

CountCalls(calls, f) == Cardinality({k \in DOMAIN calls : calls[k].f = f})

\* sync_trials_from_mongo(limit): the graph afterwards and the statistics
RECURSIVE sync_trials_from_mongo_loop(_, _, _)
sync_trials_from_mongo_loop(g, t, docs) ==
    IF docs = <<>>
    THEN [graph |-> g,
          stats |-> [trials_synced |-> 0, conditions_created |-> 0,
                     locations_created |-> 0, relationships_created |-> 0,
                     errors |-> 0]]
    ELSE LET calls == BulkCalls(Head(docs))
             rest == sync_trials_from_mongo_loop(
                        RunCalls(g, t, calls, Len(calls)), t, Tail(docs))
         IN [graph |-> rest.graph,
             stats |->
               [trials_synced |-> rest.stats.trials_synced + 1,
                conditions_created |-> rest.stats.conditions_created
                    + CountCalls(calls, "create_condition_node"),
                locations_created |-> rest.stats.locations_created
                    + CountCalls(calls, "create_location_node"),
                relationships_created |-> rest.stats.relationships_created
                    + CountCalls(calls, "link_trial_to_condition")
                    + CountCalls(calls, "link_trial_to_location"),
                errors |-> 0]]

\* cursor = find({}); if limit: cursor = cursor.limit(limit).  A limit of 0 is
\* falsy like the default None: the whole collection
sync_trials_from_mongo(g, t, docs, limit) ==
    sync_trials_from_mongo_loop(g, t, IF limit = 0 THEN docs ELSE CursorLimit(docs, limit))

---------------------------------------------------------------------------
(* Values the operations are called with *)

NCT1 == <<"N", "1">>
NCT2 == <<"N", "2">>
NctIds == {NCT1, NCT2}
Titles == {<<"t">>, <<"u">>}
COMPLETED == <<"C">>
Statuses == {RECRUITING, COMPLETED}
Phases == {Null, <<"PHASE1">>}
Diabetes == <<"D", "m">>                 \* differs from diabetes in case only
diabetes == <<"d", "m">>
Asthma == <<"A">>
ConditionNames == {Diabetes, diabetes, Asthma}
Categories == {Null, <<"k">>}
Boston == <<"B">>
MA == <<"M", "A">>
FR == <<"F", "R">>
UserIds == {<<"7">>, <<"8">>}

MaxGraphTime == 1

---------------------------------------------------------------------------
(* Requests that run at the same time *)

\* the requests that may be in progress together, and a request that is not
Requests == {"a", "b"}
Idle == [op |-> "idle"]

---------------------------------------------------------------------------
(* Operations of the graph store, called one at a time *)

Tick(max) ==
    /\ now < max
    /\ now' = now + 1
    /\ UNCHANGED <<graphVars, cache, last, inflight>>

CreateTrialNode(nct_id, title, status, phase) ==
    /\ \E g \in {create_trial_node(Graph, now, nct_id, title, status, phase)} : SetGraph(g)
    /\ last' = [op |-> "create_trial_node", nct_id |-> nct_id, title |-> title,
                status |-> status, phase |-> phase]
    /\ UNCHANGED <<now, cache, inflight>>

CreateConditionNode(condition_name, category) ==
    /\ \E g \in {create_condition_node(Graph, condition_name, category)} : SetGraph(g)
    /\ last' = [op |-> "create_condition_node", name |-> condition_name,
                category |-> category]
    /\ UNCHANGED <<now, cache, inflight>>

CreateLocationNode(city, state, country, lat, lon) ==
    /\ \E g \in {create_location_node(Graph, city, state, country, lat, lon)} : SetGraph(g)
    /\ last' = [op |-> "create_location_node", city |-> city, state |-> state,
                country |-> country, lat |-> lat, lon |-> lon]
    /\ UNCHANGED <<now, cache, inflight>>

CreatePatientNode(user_id, age, gender) ==
    /\ \E g \in {create_patient_node(Graph, now, user_id, age, gender)} : SetGraph(g)
    /\ last' = [op |-> "create_patient_node", user_id |-> user_id, age |-> age,
                gender |-> gender]
    /\ UNCHANGED <<now, cache, inflight>>

LinkTrialToCondition(nct_id, condition_name) ==
    /\ \E g \in {link_trial_to_condition(Graph, nct_id, condition_name)} : SetGraph(g)
    /\ last' = [op |-> "link_trial_to_condition", from |-> nct_id,
                to |-> condition_name]
    /\ UNCHANGED <<now, cache, inflight>>

LinkTrialToLocation(nct_id, location_id) ==
    /\ \E g \in {link_trial_to_location(Graph, nct_id, location_id)} : SetGraph(g)
    /\ last' = [op |-> "link_trial_to_location", from |-> nct_id,
                to |-> location_id]
    /\ UNCHANGED <<now, cache, inflight>>

LinkPatientToCondition(user_id, condition_name) ==
    /\ \E g \in {link_patient_to_condition(Graph, user_id, condition_name)} : SetGraph(g)
    /\ last' = [op |-> "link_patient_to_condition", from |-> user_id,
                to |-> condition_name]
    /\ UNCHANGED <<now, cache, inflight>>

LinkPatientToLocation(user_id, location_id) ==
    /\ \E g \in {link_patient_to_location(Graph, user_id, location_id)} : SetGraph(g)
    /\ last' = [op |-> "link_patient_to_location", from |-> user_id,
                to |-> location_id]
    /\ UNCHANGED <<now, cache, inflight>>

LinkPatientSavedTrial(user_id, nct_id) ==
    /\ \E g \in {link_patient_saved_trial(Graph, now, user_id, nct_id)} : SetGraph(g)
    /\ last' = [op |-> "link_patient_saved_trial", from |-> user_id,
                to |-> nct_id]
    /\ UNCHANGED <<now, cache, inflight>>

LinkConditionHierarchy(child_condition, parent_condition) ==
    /\ \E g \in {link_condition_hierarchy(Graph, child_condition, parent_condition)} : SetGraph(g)
    /\ last' = [op |-> "link_condition_hierarchy", from |-> child_condition,
                to |-> parent_condition]
    /\ UNCHANGED <<now, cache, inflight>>

Init ==
    /\ now = 0
    /\ trialNodes = <<>>
    /\ conditionNodes = <<>>
    /\ locationNodes = <<>>
    /\ patientNodes = <<>>
    /\ treats = EmptyBag
    /\ locatedIn = EmptyBag
    /\ hasCondition = EmptyBag
    /\ livesIn = EmptyBag
    /\ savedTrial = EmptyBag
    /\ isSubtypeOf = EmptyBag
    /\ cache = <<>>
    /\ last = [op |-> "init"]
    /\ inflight = [r \in Requests |-> Idle]

(* SpecNodes: the node upserts, in any order and with any arguments *)
NextNodes ==
    \/ \E n \in NctIds, ti \in Titles : CreateTrialNode(n, ti, RECRUITING, Null)
    \/ \E c \in {Diabetes, diabetes}, k \in Categories : CreateConditionNode(c, k)
    \/ \E sc \in {<<MA, Null>>, <<Null, FR>>}, la \in {Null, <<"4">>} :
          CreateLocationNode(Boston, sc[1], sc[2], la, Null)
    \/ \E u \in UserIds, a \in {Null, <<"3">>} : CreatePatientNode(u, a, Null)

SpecNodes == Init /\ [][NextNodes]_vars

(* SpecLocations: create_location_node called with a state, with a country,
   with both or with neither, for one city *)
Regions == {Null, MA, FR}

NextLocations ==
    \E st \in Regions, co \in Regions, la \in {Null, <<"4">>} :
        CreateLocationNode(Boston, st, co, la, Null)

SpecLocations == Init /\ [][NextLocations]_vars

(* SpecLinks: the relationship upserts over a small graph *)
BostonMA == location_id_of(Boston, MA, Null)

NextLinks ==
    \/ Tick(MaxGraphTime)
    \/ CreateTrialNode(NCT1, <<"t">>, RECRUITING, Null)
    \/ \E c \in {Diabetes, Asthma} : CreateConditionNode(c, Null)
    \/ CreateLocationNode(Boston, MA, Null, Null, Null)
    \/ CreatePatientNode(<<"7">>, Null, Null)
    \/ \E c \in {Diabetes, Asthma} : LinkTrialToCondition(NCT1, c)
    \/ LinkTrialToLocation(NCT1, BostonMA)
    \/ \E c \in {Diabetes, Asthma} : LinkPatientToCondition(<<"7">>, c)
    \/ LinkPatientToLocation(<<"7">>, BostonMA)
    \/ LinkPatientSavedTrial(<<"7">>, NCT1)
    \/ LinkConditionHierarchy(Diabetes, Asthma)

SpecLinks == Init /\ [][NextLinks]_vars

---------------------------------------------------------------------------
(* Operations of the cache *)

CacheTrial(trial_data, mongoUp, up) ==
    \E r \in {cache_trial(cache, Graph, now, trial_data, mongoUp, up)} :
       /\ cache' = r.cache
       /\ SetGraph(r.graph)
       /\ last' = [op |-> "cache_trial", doc |-> trial_data, ret |-> r.ret,
                   raised |-> r.raised,
                   graphUp |-> up >= Len(SyncCalls(trial_data))]
       /\ UNCHANGED <<now, inflight>>

GetCachedTrial(nct_id) ==
    \E r \in {get_cached_trial(cache, now, nct_id)} :
       /\ cache' = r.cache
       /\ last' = IF r.outcome = "hit"
                  THEN [op |-> "get_cached_trial", nct_id |-> nct_id,
                        outcome |-> r.outcome, trial |-> r.trial]
                  ELSE [op |-> "get_cached_trial", nct_id |-> nct_id,
                        outcome |-> r.outcome]
       /\ UNCHANGED <<now, graphVars, inflight>>

SyncTrialToNeo4j(trial_data, up) ==
    \E r \in {sync_trial_to_neo4j(Graph, now, trial_data, up)} :
       /\ SetGraph(r.graph)
       /\ last' = [op |-> "sync_trial_to_neo4j", doc |-> trial_data, ret |-> r.ret,
                   raised |-> r.raised,
                   again |-> /\ last.op = "sync_trial_to_neo4j"
                             /\ last.doc = trial_data
                             /\ last.ret]
       /\ UNCHANGED <<now, cache, inflight>>

(* SpecCache: writes and reads of the cache while time passes *)
MaxCacheTime == 8

CacheStudies ==
    {Study(NCT1, <<"t">>, RECRUITING, Null, <<>>, <<>>),
     Study(NCT1, <<"u">>, COMPLETED, Null, <<>>, <<>>),
     Study(Null, <<"t">>, RECRUITING, Null, <<>>, <<>>)}

NextCache ==
    \/ Tick(MaxCacheTime)
    \/ \E d \in CacheStudies, mongoUp \in BOOLEAN, up \in {0, 1} :
          CacheTrial(d, mongoUp, up)
    \/ \E n \in NctIds : GetCachedTrial(n)

SpecCache == Init /\ [][NextCache]_vars

(* SpecPut: writes of the cache for two identifiers *)
PutStudies ==
    CacheStudies \cup {Study(NCT2, <<"t">>, RECRUITING, Null, <<>>, <<>>)}

NextPut ==
    \/ Tick(MaxGraphTime)
    \/ \E d \in PutStudies, mongoUp \in BOOLEAN, up \in {0, 1} :
          CacheTrial(d, mongoUp, up)

SpecPut == Init /\ [][NextPut]_vars

(* SpecSync: registry records are cached and projected into the graph *)
StudyA ==
    Study(NCT1, <<"t">>, RECRUITING, Null, <<Diabetes, Asthma>>,
          <<Loc(Boston, MA, Null)>>)
StudyA2 ==
    Study(NCT1, <<"u">>, COMPLETED, <<"PHASE1">>, <<Diabetes>>, <<>>)
StudyB ==
    Study(NCT2, <<"t">>, RECRUITING, Null, <<diabetes, <<>>, Asthma>>,
          <<Loc(Boston, Null, FR), Loc(Null, MA, Null)>>)
StudyNoId == Study(Null, <<"t">>, RECRUITING, Null, <<Asthma>>, <<>>)
StudyBadLoc ==
    Study(NCT2, <<"t">>, RECRUITING, Null, <<Asthma>>,
          <<Loc(Boston, MA, Null), NotAnObject, Loc(Boston, Null, FR)>>)
SyncStudies == {StudyA, StudyA2, StudyB}

\* where the graph store may fail during one projection: at once, after the
\* Trial node, before the last call, or not at all
UpChoices(d) == {0, 1, Len(SyncCalls(d)) - 1, Len(SyncCalls(d))}

NextSync ==
    \/ \E d \in SyncStudies, mongoUp \in BOOLEAN :
          \E up \in UpChoices(d) : CacheTrial(d, mongoUp, up)
    \/ \E d \in SyncStudies :
          \E up \in UpChoices(d) : SyncTrialToNeo4j(d, up)

SpecSync == Init /\ [][NextSync]_vars

(* SpecBad: the same two operations on well-formed and malformed records *)
BadStudies == {StudyA, StudyNoId, StudyBadLoc, NullProtocolSection}

NextBad ==
    \/ \E d \in BadStudies, mongoUp \in BOOLEAN :
          \E up \in UpChoices(d) : CacheTrial(d, mongoUp, up)
    \/ \E d \in BadStudies :
          \E up \in UpChoices(d) : SyncTrialToNeo4j(d, up)

SpecBad == Init /\ [][NextBad]_vars

(* SpecMatch: the graph is filled by projections and by the patient sync, and
   queried *)
FindMatchingTrials(conditions, location_id, status, limit) ==
    /\ \E results \in find_matching_trials(Graph, conditions, location_id,
                                           status, limit) :
          last' = [op |-> "find_matching_trials", conditions |-> conditions,
                   location_id |-> location_id, status |-> status,
                   limit |-> limit, ret |-> results]
    /\ UNCHANGED <<now, graphVars, cache, inflight>>

\* sync_patients_from_postgres, for one user with one condition
SyncPatient(user_id, condition) ==
    /\ \E g \in {link_patient_to_condition(
                    create_patient_node(Graph, now, user_id, Null, Null),
                    user_id, condition)} : SetGraph(g)
    /\ last' = [op |-> "sync_patients_from_postgres", user_id |-> user_id]
    /\ UNCHANGED <<now, cache, inflight>>

BostonFR == location_id_of(Boston, Null, FR)

StudyC ==
    Study(NCT2, <<"t">>, RECRUITING, Null, <<Diabetes, diabetes>>,
          <<Loc(Boston, Null, FR), Loc(Boston, MA, Null)>>)
StudyD ==
    Study(NCT2, <<"t">>, COMPLETED, Null, <<Asthma>>, <<Loc(Boston, MA, Null)>>)
StudyE ==
    Study(NCT1, <<"t">>, RECRUITING, Null, <<>>, <<Loc(Boston, MA, Null)>>)
MatchStudies == {StudyA, StudyC, StudyD, StudyE}

Queries ==
    {<<>>, <<diabetes>>, <<Diabetes>>, <<<<"D", "M">>, <<"a">>, <<"x">>>>}
QueryLocations == {Null, BostonMA, BostonFR}
MaxLimit == 2

NextMatch ==
    \/ \E d \in MatchStudies : SyncTrialToNeo4j(d, Len(SyncCalls(d)))
    \/ SyncPatient(<<"7">>, diabetes)
    \/ \E c \in Queries, l \in QueryLocations, st \in Statuses, n \in 1..MaxLimit :
          FindMatchingTrials(c, l, st, n)

SpecMatch == Init /\ [][NextMatch]_vars

(* SpecSearch: the cache is written and searched while time passes *)
SearchCachedTrials(condition, location, status, limit) ==
    /\ last' = [op |-> "search_cached_trials", condition |-> condition,
                location |-> location, status |-> status, limit |-> limit,
                ret |-> search_cached_trials(cache, now, condition, location,
                                             status, limit)]
    /\ UNCHANGED <<now, graphVars, cache, inflight>>

SearchStudies ==
    {Study(NCT1, <<"t">>, RECRUITING, Null, <<Asthma, Diabetes>>,
           <<Loc(Boston, MA, Null)>>),
     Study(NCT2, <<"t">>, COMPLETED, Null, <<Asthma>>, <<>>)}
SearchConditions == {Null, <<>>, <<"d", "M">>, <<".">>}
SearchLocations == {Null, <<"b">>}
SearchStatuses == {Null, RECRUITING}

NextSearch ==
    \/ Tick(MaxCacheTime)
    \/ \E d \in SearchStudies : CacheTrial(d, TRUE, 0)
    \/ \E c \in SearchConditions, l \in SearchLocations, st \in SearchStatuses,
          n \in 0..MaxLimit : SearchCachedTrials(c, l, st, n)

SpecSearch == Init /\ [][NextSearch]_vars

(* SpecReads: the cache is written and read by both read operations while time
   passes *)
NextReads ==
    \/ Tick(MaxCacheTime)
    \/ \E d \in SearchStudies : CacheTrial(d, TRUE, 0)
    \/ \E n \in NctIds : GetCachedTrial(n)
    \/ \E c \in {Null, <<"d", "M">>}, n \in 1..MaxLimit :
          SearchCachedTrials(c, Null, Null, n)

SpecReads == Init /\ [][NextReads]_vars

ClearExpiredCache ==
    \E r \in {clear_expired_cache(cache, now)} :
       /\ cache' = r.cache
       /\ last' = [op |-> "clear_expired_cache", ret |-> r.ret]
       /\ UNCHANGED <<now, graphVars, inflight>>

ClearAllCache ==
    \E r \in {clear_all_cache(cache)} :
       /\ cache' = r.cache
       /\ last' = [op |-> "clear_all_cache", ret |-> r.ret]
       /\ UNCHANGED <<now, graphVars, inflight>>

(* SpecKeep: trials are cached and projected, read, matched and cleared from the
   cache while time passes *)
KeepStudies == {StudyA, StudyA2}

NextKeep ==
    \/ Tick(MaxCacheTime)
    \/ \E d \in KeepStudies : \E up \in {1, Len(SyncCalls(d))} : CacheTrial(d, TRUE, up)
    \/ GetCachedTrial(NCT1)
    \/ SearchCachedTrials(Null, Null, Null, 1)
    \/ ClearExpiredCache
    \/ ClearAllCache
    \/ FindMatchingTrials(<<Diabetes>>, Null, Null, 1)

SpecKeep == Init /\ [][NextKeep]_vars

SyncTrialsFromMongo(limit) ==
    \E r \in {sync_trials_from_mongo(Graph, now, cache, limit)} :
       /\ SetGraph(r.graph)
       /\ last' = [op |-> "sync_trials_from_mongo", limit |-> limit,
                   ret |-> r.stats]
       /\ UNCHANGED <<now, cache, inflight>>

(* SpecResync: trials are cached, with or without a graph to project them to,
   and the cache is copied to the graph in bulk *)
BC == <<"B", ",", " ", "C">>
OHI == <<"O", "H", "I">>
StudyLongRegion ==
    Study(NCT2, <<"t">>, RECRUITING, Null, <<Asthma>>,
          <<Loc(Boston, OHI, Null), Loc(Boston, Null, OHI)>>)
StudyCommaCity ==
    Study(NCT2, <<"t">>, RECRUITING, Null, <<Asthma>>, <<Loc(BC, MA, Null)>>)
ResyncStudies == {StudyA, StudyB, StudyLongRegion, StudyCommaCity}

NextResync ==
    \/ \E d \in ResyncStudies : \E up \in {0, Len(SyncCalls(d))} :
          CacheTrial(d, TRUE, up)
    \/ \E limit \in {0, 1} : SyncTrialsFromMongo(limit)
    \/ ClearAllCache

SpecResync == Init /\ [][NextResync]_vars

(* SpecEnrich: Condition and Location nodes are given a category and
   coordinates, and trials that mention them are projected *)
NextEnrich ==
    \/ \E c \in {Diabetes, Asthma}, k \in Categories : CreateConditionNode(c, k)
    \/ \E la \in {Null, <<"4">>}, lo \in {Null, <<"7">>} :
          CreateLocationNode(Boston, MA, Null, la, lo)
    \/ \E d \in SyncStudies : SyncTrialToNeo4j(d, Len(SyncCalls(d)))

SpecEnrich == Init /\ [][NextEnrich]_vars

(* SpecRace: two requests cache and project records of the same trial at the same
   time.  Each store call (update_one, each MERGE statement) is atomic; the
   calls of the two requests interleave in any order. *)

\* cache_trial up to its try block: the document is built, with cachedAt, and
\* the store calls are still to be made
BeginCacheTrial(r, trial_data) ==
    /\ inflight[r] = Idle
    /\ ~ProtocolGetRaises(trial_data)
    /\ Truthy(trial_data.nctId)
    /\ ~LocGetRaises(trial_data.locations)
    /\ inflight' = [inflight EXCEPT ![r] =
                       [op |-> "cache_trial", doc |-> trial_data,
                        write |-> cache_doc(now, trial_data),
                        pending |-> <<[f |-> "update_one"]>>
                                    \o SyncCalls(trial_data)]]
    /\ UNCHANGED <<now, graphVars, cache, last>>

\* the next store call of cache_trial: update_one, then the graph calls of
\* sync_trial_to_neo4j in order; after the last one cache_trial returns True
StepCacheTrial(r) ==
    /\ inflight[r].op = "cache_trial"
    /\ LET c == Head(inflight[r].pending)
           rest == Tail(inflight[r].pending)
       IN /\ IF c.f = "update_one"
             THEN /\ cache' = update_one_upsert(cache, inflight[r].write)
                  /\ UNCHANGED graphVars
             ELSE /\ \E g \in {GraphCall(Graph, now, c)} : SetGraph(g)
                  /\ UNCHANGED cache
          /\ IF rest = <<>>
             THEN /\ inflight' = [inflight EXCEPT ![r] = Idle]
                  /\ last' = [op |-> "cache_trial", doc |-> inflight[r].doc,
                              ret |-> TRUE, raised |-> FALSE, graphUp |-> TRUE]
             ELSE /\ inflight' = [inflight EXCEPT ![r].pending = rest]
                  /\ UNCHANGED last
    /\ UNCHANGED now

RaceStudies == {StudyA, StudyA2}

NextRace ==
    \/ \E r \in Requests, d \in RaceStudies : BeginCacheTrial(r, d)
    \/ \E r \in Requests : StepCacheTrial(r)

SpecRace == Init /\ [][NextRace]_vars

(* SpecRefresh: get_cached_trial in progress together with a cache_trial for
   the same identifier, while time passes.  get_cached_trial makes two store
   calls: find_one, and delete_one when the document it found is expired. *)
BeginGetCachedTrial(r, nct_id) ==
    /\ inflight[r] = Idle
    /\ IF FindDocs(cache, nct_id) = {}
       THEN /\ last' = [op |-> "get_cached_trial", nct_id |-> nct_id,
                        outcome |-> "absent"]
            /\ UNCHANGED inflight
       ELSE /\ inflight' = [inflight EXCEPT ![r] =
                               [op |-> "get_cached_trial", nct_id |-> nct_id,
                                trial |-> cache[First(FindDocs(cache, nct_id))]]]
            /\ UNCHANGED last
    /\ UNCHANGED <<now, graphVars, cache>>

StepGetCachedTrial(r) ==
    /\ inflight[r].op = "get_cached_trial"
    /\ IF Expired(inflight[r].trial, now)
       THEN /\ cache' = delete_one(cache, inflight[r].nct_id)
            /\ last' = [op |-> "get_cached_trial", nct_id |-> inflight[r].nct_id,
                        outcome |-> "expired"]
       ELSE /\ UNCHANGED cache
            /\ last' = [op |-> "get_cached_trial", nct_id |-> inflight[r].nct_id,
                        outcome |-> "hit", trial |-> inflight[r].trial]
    /\ inflight' = [inflight EXCEPT ![r] = Idle]
    /\ UNCHANGED <<now, graphVars>>

\* a request lasts much less than a day: days pass between requests
DayPasses ==
    /\ \A r \in Requests : inflight[r] = Idle
    /\ Tick(MaxCacheTime)

NextRefresh ==
    \/ DayPasses
    \/ \E r \in Requests : BeginCacheTrial(r, StudyA2)
    \/ \E r \in Requests : StepCacheTrial(r)
    \/ \E r \in Requests : BeginGetCachedTrial(r, NCT1)
    \/ \E r \in Requests : StepGetCachedTrial(r)

SpecRefresh == Init /\ [][NextRefresh]_vars

(* SpecQueries: the graph is filled by projections, the patient sync and saved
   trials, and asked for related trials and recommendations *)
FindRelatedTrials(nct_id, limit) ==
    /\ \E results \in find_related_trials(Graph, nct_id, limit) :
          last' = [op |-> "find_related_trials", nct_id |-> nct_id,
                   limit |-> limit, ret |-> results]
    /\ UNCHANGED <<now, graphVars, cache, inflight>>

GetPatientRecommendations(user_id, limit) ==
    /\ \E results \in get_patient_recommendations(Graph, user_id, limit) :
          last' = [op |-> "get_patient_recommendations", user_id |-> user_id,
                   limit |-> limit, ret |-> results]
    /\ UNCHANGED <<now, graphVars, cache, inflight>>

NCT3 == <<"N", "3">>
StudyG == Study(NCT3, <<"t">>, RECRUITING, Null, <<Diabetes>>, <<>>)
QueryStudies == {StudyA, StudyD, StudyE, StudyG}
PatientConditionNames == {Diabetes, Asthma}

NextQueries ==
    \/ \E d \in QueryStudies : SyncTrialToNeo4j(d, Len(SyncCalls(d)))
    \/ \E c \in PatientConditionNames : SyncPatient(<<"7">>, c)
    \/ \E n \in {NCT1, NCT3} : LinkPatientSavedTrial(<<"7">>, n)
    \/ \E n \in {NCT1, NCT2, NCT3}, k \in 1..MaxLimit : FindRelatedTrials(n, k)
    \/ \E k \in 1..MaxLimit : GetPatientRecommendations(<<"7">>, k)

SpecQueries == Init /\ [][NextQueries]_vars

---------------------------------------------------------------------------
(* app.py: the match request and its fallback to the origin registry *)

SmartMatchLimit == 20
OriginPageSize == 20
OriginTimeout == 10

AreaCondition == <<"AREA[ConditionSearch]">>
AreaLocation == <<"AREA[LocationSearch]">>

\* query_parts and params['query.term'] (Null when there are no parts)
query_term(conditions, location) ==
    LET parts == (IF conditions # <<>>
                  THEN <<AreaCondition \o Join(<<" OR ">>, conditions)>> ELSE <<>>)
                 \o (IF Truthy(location) THEN <<AreaLocation \o location>>
                     ELSE <<>>)
    IN IF parts # <<>> THEN Join(<<" AND ">>, parts) ELSE Null

\* requests.get(f"{CLINICAL_TRIALS_API_BASE}/studies", params=params, timeout=10)
origin_request(conditions, location) ==
    [path |-> "/studies", term |-> query_term(conditions, location),
     pageSize |-> OriginPageSize, overallStatus |-> RECRUITING,
     timeout |-> OriginTimeout]

\* if len(results) > 0: return the graph results
GraphAnsweredWithSeveral(results) == Len(results) > 1
GraphAnswered(results) == Len(results) > 0

\* for study in api_data['studies']: try: cache_trial(study) except: ...
\* env[k] tells, for the k-th record, whether MongoDB answers and whether Neo4j
\* answers every call ("up"), only the first ("partial") or none ("down").
\* `rets` lists what each cache_trial call returned, or "raised".
GraphUp(study, graph) ==
    CASE graph = "up" -> Len(SyncCalls(study))
      [] graph = "partial" -> 1
      [] graph = "down" -> 0

RECURSIVE cache_studies(_, _, _, _, _)
cache_studies(docs, g, t, studies, env) ==
    IF studies = <<>> THEN [cache |-> docs, graph |-> g, rets |-> <<>>]
    ELSE LET r == cache_trial(docs, g, t, Head(studies), Head(env).mongoUp,
                              GraphUp(Head(studies), Head(env).graph))
             rest == cache_studies(r.cache, r.graph, t, Tail(studies), Tail(env))
         IN [cache |-> rest.cache, graph |-> rest.graph,
             rets |-> <<IF r.raised THEN "raised"
                        ELSE IF r.ret THEN "True" ELSE "False">> \o rest.rets]

\* nct_id = identification.get('nctId'); if not nct_id: continue
HasIdentifierAlways(study) == TRUE
HasIdentifier(study) == Truthy(study.nctId)

\* the formatting loop over api_data.get('studies', [])
RECURSIVE formatted_matches(_)
formatted_matches(studies) ==
    IF studies = <<>> THEN <<>>
    ELSE (IF ProtocolGetRaises(Head(studies)) \/ ~HasIdentifier(Head(studies))
          THEN <<>>
          ELSE <<[nctId |-> Head(studies).nctId,
                  title |-> Get(Head(studies).briefTitle,
                                <<"Unknown Title">>),
                  status |-> Get(Head(studies).overallStatus, <<"Unknown">>),
                  phase |-> Get(Head(studies).phases, <<>>),
                  matchScore |-> 0]>>)
         \o formatted_matches(Tail(studies))

\* An answer of the origin registry: a failure of the request (timeout,
\* connection error, non-2xx status, unparsable body) or a parsed body, with or
\* without a 'studies' key.
OriginFailure == [ok |-> FALSE, hasStudies |-> FALSE, studies |-> <<>>]
OriginBody(hasStudies, studies) ==
    [ok |-> TRUE, hasStudies |-> hasStudies, studies |-> studies]

\* The part of the two handlers after the graph query came back empty: the
\* stores afterwards and the outcome.
\* requests.get, raise_for_status and response.json() went through
OriginAnsweredAlways(response) == TRUE
OriginAnswered(response) == response.ok

fallback(docs, g, t, response, env) ==
    IF ~OriginAnswered(response)
    THEN [cache |-> docs, graph |-> g, ok |-> FALSE, rets |-> <<>>]
    ELSE LET studies == IF response.hasStudies THEN response.studies ELSE <<>>
             r == cache_studies(docs, g, t, studies, env)
         IN [cache |-> r.cache, graph |-> r.graph, ok |-> TRUE, rets |-> r.rets,
             matches |-> formatted_matches(studies)]

\* call_smart_match_internal(criteria).  graphUp: the graph query answers.
CallSmartMatchInternal(conditions, location, graphUp, response, env) ==
    IF ~graphUp
    THEN /\ last' = [op |-> "call_smart_match_internal", conditions |-> conditions,
                     location |-> location, queried |-> FALSE, origin |-> <<>>,
                     raised |-> TRUE]
         /\ UNCHANGED <<now, graphVars, cache, inflight>>
    ELSE \E results \in find_matching_trials(Graph, conditions, location,
                                             RECRUITING, SmartMatchLimit) :
         IF GraphAnswered(results)
         THEN /\ last' = [op |-> "call_smart_match_internal",
                          conditions |-> conditions, location |-> location,
                          queried |-> TRUE, graphResults |-> results,
                          origin |-> <<>>, raised |-> FALSE,
                          ret |-> [success |-> TRUE, matches |-> results,
                                   totalMatches |-> Len(results),
                                   method |-> "graph"]]
              /\ UNCHANGED <<now, graphVars, cache, inflight>>
         ELSE \E r \in {fallback(cache, Graph, now, response, env)} :
              /\ cache' = r.cache
              /\ SetGraph(r.graph)
              /\ last' = [op |-> "call_smart_match_internal",
                          conditions |-> conditions, location |-> location,
                          queried |-> TRUE, graphResults |-> results,
                          origin |-> <<origin_request(conditions, location)>>,
                          response |-> response, env |-> env,
                          cached |-> r.rets, raised |-> FALSE,
                          ret |-> IF r.ok
                                  THEN [success |-> TRUE, matches |-> r.matches,
                                        totalMatches |-> Len(r.matches),
                                        method |-> "api_fallback"]
                                  ELSE [success |-> FALSE, matches |-> <<>>,
                                        totalMatches |-> 0, error |-> TRUE]]
              /\ UNCHANGED <<now, inflight>>

\* POST /api/trials/smart-match.  authed: 'user_id' in session.
SmartMatchTrials(authed, conditions, location, graphUp, response, env) ==
    IF ~authed
    THEN /\ last' = [op |-> "smart_match_trials", conditions |-> conditions,
                     location |-> location, queried |-> FALSE, origin |-> <<>>,
                     ret |-> [http |-> 401]]
         /\ UNCHANGED <<now, graphVars, cache, inflight>>
    ELSE IF ~graphUp
    THEN /\ last' = [op |-> "smart_match_trials", conditions |-> conditions,
                     location |-> location, queried |-> FALSE, origin |-> <<>>,
                     ret |-> [http |-> 500]]
         /\ UNCHANGED <<now, graphVars, cache, inflight>>
    ELSE \E results \in find_matching_trials(Graph, conditions, location,
                                             RECRUITING, SmartMatchLimit) :
         IF GraphAnswered(results)
         THEN /\ last' = [op |-> "smart_match_trials", conditions |-> conditions,
                          location |-> location, queried |-> TRUE,
                          graphResults |-> results, origin |-> <<>>,
                          ret |-> [http |-> 200, success |-> TRUE,
                                   matches |-> results,
                                   totalMatches |-> Len(results),
                                   method |-> "graph"]]
              /\ UNCHANGED <<now, graphVars, cache, inflight>>
         ELSE \E r \in {fallback(cache, Graph, now, response, env)} :
              /\ cache' = r.cache
              /\ SetGraph(r.graph)
              /\ last' = [op |-> "smart_match_trials", conditions |-> conditions,
                          location |-> location, queried |-> TRUE,
                          graphResults |-> results,
                          origin |-> <<origin_request(conditions, location)>>,
                          response |-> response, env |-> env,
                          cached |-> r.rets,
                          ret |-> IF r.ok
                                  THEN [http |-> 200, success |-> TRUE,
                                        matches |-> r.matches,
                                        totalMatches |-> Len(r.matches),
                                        method |-> "api_fallback",
                                        cached_to_graph |-> TRUE]
                                  ELSE [http |-> 500]]
              /\ UNCHANGED <<now, inflight>>

(* SpecSmart: match requests against stores that start empty *)
StudyF == Study(NCT2, Null, RECRUITING, Null, <<Asthma>>, <<>>)

OriginResponses ==
    {OriginFailure, OriginBody(FALSE, <<>>), OriginBody(TRUE, <<>>),
     OriginBody(TRUE, <<StudyA, StudyF>>), OriginBody(TRUE, <<StudyNoId, StudyF>>),
     OriginBody(TRUE, <<NullProtocolSection, StudyBadLoc>>)}

SmartConditions == {<<>>, <<diabetes, Asthma>>}
SmartLocations == {Null, BostonMA}

\* per record: MongoDB up or down, and how far Neo4j answers
Envs(response) ==
    [1..Len(response.studies) ->
        {[mongoUp |-> TRUE, graph |-> "up"],
         [mongoUp |-> TRUE, graph |-> "partial"],
         [mongoUp |-> FALSE, graph |-> "down"]}]

NextSmart ==
    \/ \E c \in SmartConditions, l \in SmartLocations, resp \in OriginResponses :
          \E env \in Envs(resp) : CallSmartMatchInternal(c, l, TRUE, resp, env)
    \/ \E c \in SmartConditions, l \in SmartLocations :
          CallSmartMatchInternal(c, l, FALSE, OriginFailure, <<>>)
    \/ \E c \in SmartConditions, l \in SmartLocations, resp \in OriginResponses :
          \E env \in Envs(resp) : SmartMatchTrials(TRUE, c, l, TRUE, resp, env)
    \/ \E authed \in BOOLEAN, c \in SmartConditions, l \in SmartLocations :
          SmartMatchTrials(authed, c, l, ~authed, OriginFailure, <<>>)

SpecSmart == Init /\ [][NextSmart]_vars

---------------------------------------------------------------------------
(* Claims about the graph store *)

Unique(nodes, key(_)) ==
    \A i, j \in DOMAIN nodes : key(nodes[i]) = key(nodes[j]) => i = j

KeyNctId(n) == n.nctId
KeyName(n) == n.name
KeyLocationId(n) == n.locationId
KeyUserId(n) == n.userId

\* the number of relationships in `edges` that run from node `from` to node `to`
RelCount(edges, from, to) ==
    LET same == {e \in BagToSet(edges) : e.from = from /\ e.to = to}
    IN BagCardinality([e \in same |-> edges[e]])

\* C7: after any sequence of node upserts there is exactly one node per natural
\* key (Trial nctId, Condition name, Location locationId, Patient userId), and the
\* node of the key upserted last carries the fields that call supplied.
C7_OneNodePerNaturalKey ==
    /\ Unique(trialNodes, KeyNctId)
    /\ Unique(conditionNodes, KeyName)
    /\ Unique(locationNodes, KeyLocationId)
    /\ Unique(patientNodes, KeyUserId)
    /\ last.op = "create_trial_node" =>
         /\ Cardinality(MatchTrial(Graph, last.nct_id)) = 1
         /\ \A i \in MatchTrial(Graph, last.nct_id) :
               /\ trialNodes[i].title = last.title
               /\ trialNodes[i].status = last.status
               /\ trialNodes[i].phase = <<>>
               /\ trialNodes[i].updatedAt = now
    /\ last.op = "create_condition_node" =>
         /\ Cardinality(MatchCondition(Graph, last.name)) = 1
         /\ \A i \in MatchCondition(Graph, last.name) :
               conditionNodes[i].category = last.category
    /\ last.op = "create_location_node" =>
         LET id == IF last.state = Null THEN last.city \o CommaSpace \o last.country
                   ELSE last.city \o CommaSpace \o last.state
         IN /\ Cardinality(MatchLocation(Graph, id)) = 1
            /\ \A i \in MatchLocation(Graph, id) :
                  /\ locationNodes[i].city = last.city
                  /\ locationNodes[i].state = last.state
                  /\ locationNodes[i].country = last.country
                  /\ locationNodes[i].latitude = last.lat
    /\ last.op = "create_patient_node" =>
         /\ Cardinality(MatchPatient(Graph, last.user_id)) = 1
         /\ \A i \in MatchPatient(Graph, last.user_id) :
               patientNodes[i].age = last.age

\* C7 witness: NCT1 was created first, NCT2 after it, and the last call upserted
\* NCT1 again with the other title; likewise a Condition was upserted again.
C7_Witness ==
    /\ Len(trialNodes) = 2
    /\ trialNodes[1].nctId = NCT1
    /\ last.op = "create_trial_node"
    /\ last.nct_id = NCT1
    /\ trialNodes[1].title = <<"u">>
    /\ trialNodes[2].title = <<"t">>
    /\ Len(conditionNodes) = 2
    /\ Len(locationNodes) = 2
    /\ Len(patientNodes) = 2

\* C8: for every relationship type, calling its link operation any number of
\* times, at any times, with the same two (existing) endpoints leaves exactly one
\* relationship of that type between them.
C8_OneRelationshipPerEndpoints ==
    /\ \A i \in DOMAIN trialNodes, j \in DOMAIN conditionNodes :
          RelCount(treats, i, j) <= 1
    /\ \A i \in DOMAIN trialNodes, j \in DOMAIN locationNodes :
          RelCount(locatedIn, i, j) <= 1
    /\ \A i \in DOMAIN patientNodes, j \in DOMAIN conditionNodes :
          RelCount(hasCondition, i, j) <= 1
    /\ \A i \in DOMAIN patientNodes, j \in DOMAIN locationNodes :
          RelCount(livesIn, i, j) <= 1
    /\ \A i \in DOMAIN patientNodes, j \in DOMAIN trialNodes :
          RelCount(savedTrial, i, j) <= 1
    /\ \A i \in DOMAIN conditionNodes, j \in DOMAIN conditionNodes :
          RelCount(isSubtypeOf, i, j) <= 1
    /\ last.op = "link_trial_to_condition" =>
         \A i \in MatchTrial(Graph, last.from), j \in MatchCondition(Graph, last.to) :
            RelCount(treats, i, j) = 1
    /\ last.op = "link_trial_to_location" =>
         \A i \in MatchTrial(Graph, last.from), j \in MatchLocation(Graph, last.to) :
            RelCount(locatedIn, i, j) = 1
    /\ last.op = "link_patient_to_condition" =>
         \A i \in MatchPatient(Graph, last.from), j \in MatchCondition(Graph, last.to) :
            RelCount(hasCondition, i, j) = 1
    /\ last.op = "link_patient_to_location" =>
         \A i \in MatchPatient(Graph, last.from), j \in MatchLocation(Graph, last.to) :
            RelCount(livesIn, i, j) = 1
    /\ last.op = "link_patient_saved_trial" =>
         \A i \in MatchPatient(Graph, last.from), j \in MatchTrial(Graph, last.to) :
            RelCount(savedTrial, i, j) = 1
    /\ last.op = "link_condition_hierarchy" =>
         \A i \in MatchCondition(Graph, last.from), j \in MatchCondition(Graph, last.to) :
            RelCount(isSubtypeOf, i, j) = 1

\* C9: the graph never holds two Condition nodes whose names are equal after
\* case-normalization.
C9_ConditionNameUniqueIgnoringCase ==
    \A i, j \in DOMAIN conditionNodes :
       ToLower(conditionNodes[i].name) = ToLower(conditionNodes[j].name) => i = j

---------------------------------------------------------------------------
(* Claims about the cache *)

\* C5: for a document cached at time T, get_cached_trial(id) at any time before
\* T + 7 days returns the document and leaves it stored, and at any time after
\* T + 7 days returns a miss and removes the document from the cache.
C5_LazyExpiry ==
    [][(last'.op = "get_cached_trial" /\ now' = now) =>
          \A i \in FindDocs(cache, last'.nct_id) :
             /\ now < cache[i].cachedAt + CACHE_EXPIRATION_DAYS =>
                  /\ last'.outcome = "hit"
                  /\ last'.trial = cache[i]
                  /\ cache' = cache
             /\ now > cache[i].cachedAt + CACHE_EXPIRATION_DAYS =>
                  /\ last'.outcome = "expired"
                  /\ FindDocs(cache', last'.nct_id) = {}
                  /\ Len(cache') = Len(cache) - 1]_vars

\* C5 witness: a read at T + 8 days found the document expired and removed it.
C5_Witness ==
    /\ last.op = "get_cached_trial"
    /\ last.nct_id = NCT1
    /\ last.outcome = "expired"
    /\ FindDocs(cache, NCT1) = {}
    /\ now = CACHE_EXPIRATION_DAYS + 1

\* the other case of C5: a read at T + 6 days returned the document
C5_HitReached ==
    /\ last.op = "get_cached_trial"
    /\ last.outcome = "hit"
    /\ now = last.trial.cachedAt + CACHE_EXPIRATION_DAYS - 1

\* C6: the cache holds at most one document per nctId, and a successful
\* cache_trial leaves that one document with the payload and searchable fields of
\* the call and cachedAt = the time of the call.
C6_OneDocumentPerTrial ==
    /\ [](Unique(cache, KeyNctId))
    /\ [][(last'.op = "cache_trial" /\ last'.ret /\ now' = now) =>
            /\ Cardinality(FindDocs(cache', last'.doc.nctId)) = 1
            /\ \A i \in FindDocs(cache', last'.doc.nctId) :
                  /\ cache'[i].protocolSection = last'.doc
                  /\ cache'[i].cachedAt = now
                  /\ cache'[i].searchableFields.status = last'.doc.overallStatus
            /\ Len(cache') = Len(cache) + (IF FindDocs(cache, last'.doc.nctId) = {}
                                           THEN 1 ELSE 0)]_vars

\* C6 witness: NCT1 was stored before NCT2 and has since been overwritten in
\* place by a later call with the other payload.
C6_Witness ==
    /\ Len(cache) = 2
    /\ cache[1].nctId = NCT1
    /\ last.op = "cache_trial"
    /\ last.ret
    /\ last.doc.nctId = NCT1
    /\ last.doc.briefTitle = <<"u">>
    /\ cache[1].cachedAt > cache[2].cachedAt

---------------------------------------------------------------------------
(* Claims about find_matching_trials *)

\* the Condition nodes trial i TREATS whose name matches a requested condition
\* when case is ignored
CaseInsensitiveMatches(i, conditions) ==
    {j \in DOMAIN conditionNodes :
        /\ RelCount(treats, i, j) > 0
        /\ ToLower(conditionNodes[j].name) \in {ToLower(c) : c \in Range(conditions)}}

LocatedAt(i, location_id) ==
    /\ Truthy(location_id)
    /\ \E j \in DOMAIN locationNodes :
          /\ locationNodes[j].locationId = location_id
          /\ RelCount(locatedIn, i, j) > 0

ExpectedScore(i, conditions, location_id) ==
    10 * Cardinality(CaseInsensitiveMatches(i, conditions))
    + (IF LocatedAt(i, location_id) THEN 5 ELSE 0)

Returned == {last.ret[k].nctId : k \in DOMAIN last.ret}

\* C2: the score reported for a returned trial is 10 x (the number of distinct
\* Condition nodes it TREATS that match a requested condition, ignoring case)
\* + 5 if a location_id is given and the trial is LOCATED_IN that Location.
C2_ScoreFormula ==
    last.op = "find_matching_trials" =>
       \A k \in DOMAIN last.ret :
          \A i \in MatchTrial(Graph, last.ret[k].nctId) :
             last.ret[k].matchScore =
                ExpectedScore(i, last.conditions, last.location_id)

\* C2 witness: a trial matching 2 of 3 requested conditions (by case-insensitive
\* match only) and the requested location is returned with score 25.
C2_Witness ==
    /\ last.op = "find_matching_trials"
    /\ Len(last.conditions) = 3
    /\ \E k \in DOMAIN last.ret :
          /\ last.ret[k].matchScore = 25
          /\ \A i \in MatchTrial(Graph, last.ret[k].nctId) :
                /\ Cardinality(CaseInsensitiveMatches(i, last.conditions)) = 2
                /\ LocatedAt(i, last.location_id)

\* the other case C2 names: no condition matches, the location does, score 5
C2_LocationOnlyReached ==
    /\ last.op = "find_matching_trials"
    /\ last.conditions # <<>>
    /\ \E k \in DOMAIN last.ret :
          /\ last.ret[k].matchScore = 5
          /\ \A i \in MatchTrial(Graph, last.ret[k].nctId) :
                CaseInsensitiveMatches(i, last.conditions) = {}

\* C3: a trial with no matched condition and no location match is never
\* returned, whatever its status; every returned trial has score > 0.
C3_ScoreZeroExcluded ==
    last.op = "find_matching_trials" =>
       /\ \A k \in DOMAIN last.ret : last.ret[k].matchScore > 0
       /\ \A i \in DOMAIN trialNodes :
             (/\ CaseInsensitiveMatches(i, last.conditions) = {}
              /\ ~LocatedAt(i, last.location_id))
             => trialNodes[i].nctId \notin Returned

\* C3 witness: a query returned one trial and left out another that has the
\* requested status but neither a matching condition nor the location.
C3_Witness ==
    /\ last.op = "find_matching_trials"
    /\ Len(last.ret) = 1
    /\ \E i \in DOMAIN trialNodes :
          /\ trialNodes[i].status = last.status
          /\ CaseInsensitiveMatches(i, last.conditions) = {}
          /\ ~LocatedAt(i, last.location_id)
          /\ trialNodes[i].nctId \notin Returned

\* C4: the returned list holds only trials of the requested status, is ordered
\* by score non-increasing, has at most `limit` entries, and no omitted
\* candidate with score > 0 scores strictly higher than a returned one.
C4_StatusOrderLimit ==
    last.op = "find_matching_trials" =>
       /\ \A k \in DOMAIN last.ret : last.ret[k].status = last.status
       /\ \A a, b \in DOMAIN last.ret :
             a < b => last.ret[a].matchScore >= last.ret[b].matchScore
       /\ Len(last.ret) <= last.limit
       /\ \A i \in DOMAIN trialNodes :
             (/\ trialNodes[i].status = last.status
              /\ ExpectedScore(i, last.conditions, last.location_id) > 0
              /\ trialNodes[i].nctId \notin Returned)
             => \A k \in DOMAIN last.ret :
                   ExpectedScore(i, last.conditions, last.location_id)
                      <= last.ret[k].matchScore

\* C4 witness: with limit 1 the higher of two scored candidates was returned
\* and the lower one cut off.
C4_Witness ==
    /\ last.op = "find_matching_trials"
    /\ last.limit = 1
    /\ Len(last.ret) = 1
    /\ \E i \in DOMAIN trialNodes :
          /\ trialNodes[i].status = last.status
          /\ trialNodes[i].nctId \notin Returned
          /\ ExpectedScore(i, last.conditions, last.location_id) > 0
          /\ ExpectedScore(i, last.conditions, last.location_id)
                < last.ret[1].matchScore

\* a full-length list in which the order matters is reached as well
C4_TwoOrderedReached ==
    /\ last.op = "find_matching_trials"
    /\ Len(last.ret) = 2
    /\ last.ret[1].matchScore > last.ret[2].matchScore

---------------------------------------------------------------------------
(* Claims about the projection *)

Keys(nodes, key(_)) == [i \in DOMAIN nodes |-> key(nodes[i])]

\* C10: projecting the same record again with sync_trial_to_neo4j adds no Trial,
\* Condition or Location node and no TREATS or LOCATED_IN edge.
C10_ProjectionIdempotent ==
    [][(last'.op = "sync_trial_to_neo4j" /\ last'.again /\ last'.ret) =>
          /\ Keys(trialNodes', KeyNctId) = Keys(trialNodes, KeyNctId)
          /\ conditionNodes' = conditionNodes
          /\ locationNodes' = locationNodes
          /\ treats' = treats
          /\ locatedIn' = locatedIn]_vars

\* C10 witness: StudyA was projected successfully twice in a row, with its two
\* conditions and its location in the graph.
C10_Witness ==
    /\ last.op = "sync_trial_to_neo4j"
    /\ last.again
    /\ last.ret
    /\ last.doc = StudyA
    /\ Len(conditionNodes) >= 2
    /\ BagCardinality(treats) >= 2
    /\ BagCardinality(locatedIn) >= 1

---------------------------------------------------------------------------
(* Claims about the match request *)

SmartOps == {"call_smart_match_internal", "smart_match_trials"}

\* c1 OR c2 OR ... OR cn
RECURSIVE OrCombined(_)
OrCombined(conditions) ==
    IF Len(conditions) = 1 THEN conditions[1]
    ELSE conditions[1] \o <<" OR ">> \o OrCombined(Tail(conditions))

\* the request carries a condition query that is exactly the OR-combination
HasConditionQuery(request, conditions) ==
    /\ request.term # Null
    /\ Len(request.term) >= 1 + Len(OrCombined(conditions))
    /\ SubSeq(request.term, 1, 1 + Len(OrCombined(conditions)))
          = AreaCondition \o OrCombined(conditions)
    /\ \/ Len(request.term) = 1 + Len(OrCombined(conditions))
       \/ request.term[2 + Len(OrCombined(conditions))] = " AND "

\* C1: in a match request whose graph query answered, the origin registry is not
\* invoked when the graph returned at least one result, and is invoked exactly
\* once, with a condition query OR-combining the requested conditions, when the
\* graph returned none.
C1_FallbackGating ==
    (last.op \in SmartOps /\ last.queried) =>
        /\ Len(last.graphResults) >= 1 => last.origin = <<>>
        /\ Len(last.graphResults) = 0 =>
              /\ Len(last.origin) = 1
              /\ last.conditions # <<>> =>
                    HasConditionQuery(last.origin[1], last.conditions)

C1_Witness ==
    /\ last.op = "smart_match_trials"
    /\ last.queried
    /\ last.graphResults = <<>>
    /\ Len(last.conditions) = 2
    /\ Len(last.origin) = 1
    /\ last.origin[1].term
          = <<"AREA[ConditionSearch]", "d", "m", " OR ", "A", " AND ",
              "AREA[LocationSearch]", "B", ",", " ", "M", "A">>

C1_GraphAnswerReached ==
    /\ last.op \in SmartOps
    /\ last.queried
    /\ Len(last.graphResults) >= 1
    /\ last.origin = <<>>
    /\ trialNodes # <<>>


---------------------------------------------------------------------------
(* Claims about errors *)

\* C11: sync_trial_to_neo4j never propagates an error to its caller: for every
\* record, malformed ones included, and for every failure of the graph store, it
\* returns True or False.
C11_ProjectNeverRaises ==
    last.op = "sync_trial_to_neo4j" => ~last.raised

\* C12: cache_trial never raises for a malformed record: a record without an
\* identifier returns False and leaves the cache and the graph unchanged, and any
\* other malformed record (a null protocolSection, a location entry that is not
\* an object) yields True or False.
C12_PutNeverRaises ==
    [][last'.op = "cache_trial" =>
          /\ ~last'.raised
          /\ (last'.doc.shape = "object" /\ ~Truthy(last'.doc.nctId)) =>
                /\ last'.ret = FALSE
                /\ cache' = cache
                /\ UNCHANGED graphVars]_vars

\* a fallback whose origin request was answered with a list of records
FallbackRan ==
    /\ last.op \in SmartOps
    /\ last.queried
    /\ last.origin # <<>>
    /\ last.response.ok
    /\ last.response.hasStudies

\* record k reaches the cache write
WellFormed(study) ==
    /\ study.shape = "object"
    /\ Truthy(study.nctId)
    /\ \A j \in DOMAIN study.locations : study.locations[j].object

\* C13: if the graph projection errors for a record during a fallback, the cache
\* write for that record still takes effect and cache_trial reports success, the
\* record still appears in the returned list, and the remaining records are
\* still processed.
C13_FallbackResilience ==
    FallbackRan =>
       LET studies == last.response.studies
       IN /\ Len(last.cached) = Len(studies)
          /\ \A k \in DOMAIN studies :
                (WellFormed(studies[k]) /\ last.env[k].mongoUp) =>
                   /\ last.cached[k] = "True"
                   /\ \E i \in DOMAIN cache :
                         /\ cache[i].nctId = studies[k].nctId
                         /\ cache[i].cachedAt = now
                         /\ (\A j \in DOMAIN studies :
                                j > k => studies[j].nctId # studies[k].nctId)
                               => cache[i].protocolSection = studies[k]
                   /\ \E m \in DOMAIN last.ret.matches :
                         last.ret.matches[m].nctId = studies[k].nctId
                   /\ last.env[k].graph = "up" =>
                         MatchTrial(Graph, studies[k].nctId) # {}

\* C13 witness: the projection of the first record failed after its Trial node;
\* both records are cached and returned, and the second is in the graph.
C13_Witness ==
    /\ FallbackRan
    /\ last.response.studies = <<StudyA, StudyF>>
    /\ last.env[1] = [mongoUp |-> TRUE, graph |-> "partial"]
    /\ last.env[2] = [mongoUp |-> TRUE, graph |-> "up"]
    /\ last.cached = <<"True", "True">>
    /\ Len(cache) = 2
    /\ Len(last.ret.matches) = 2
    /\ MatchTrial(Graph, NCT1) # {}
    /\ MatchCondition(Graph, Diabetes) = {}
    /\ MatchTrial(Graph, NCT2) # {}

\* the response of a match request that failed: an error status from the
\* endpoint, success False without matches from the internal call
MatchFailed(l) ==
    IF l.op = "smart_match_trials" THEN l.ret.http = 500
    ELSE /\ ~l.raised
         /\ l.ret.success = FALSE
         /\ l.ret.matches = <<>>
         /\ l.ret.totalMatches = 0

\* C14: if the origin request of a fallback fails, the whole match returns a
\* failure with no matches, and that call writes nothing to the cache or the
\* graph.
C14_OriginFailureFailsMatch ==
    [][(/\ last'.op \in SmartOps
        /\ last'.queried
        /\ last'.origin # <<>>
        /\ ~last'.response.ok) =>
          /\ MatchFailed(last')
          /\ cache' = cache
          /\ UNCHANGED graphVars]_vars

\* C14 witness: the origin failed in a fallback made when the cache already held
\* a document; the internal call reports a failure.
C14_Witness ==
    /\ last.op = "call_smart_match_internal"
    /\ last.queried
    /\ Len(last.origin) = 1
    /\ last.response = OriginFailure
    /\ last.ret.success = FALSE
    /\ last.ret.matches = <<>>
    /\ cache # <<>>

C14_EndpointFailureReached ==
    /\ last.op = "smart_match_trials"
    /\ last.queried
    /\ Len(last.origin) = 1
    /\ last.response = OriginFailure
    /\ last.ret.http = 500

\* the match request failed or raised
Failed(l) ==
    IF l.op = "smart_match_trials" THEN l.ret.http = 500
    ELSE l.raised \/ l.ret.success = FALSE

\* C15: only a transport-level failure of the origin fetch makes a match request
\* fail; a failure of any other step (the graph store during the initial
\* find_matching_trials query, a cache write, a projection, a malformed record)
\* never fails the match and never raises out of call_smart_match_internal.
C15_OnlyTransportFailsMatch ==
    last.op \in SmartOps =>
       /\ last.op = "call_smart_match_internal" => ~last.raised
       /\ Failed(last) => (last.origin # <<>> /\ ~last.response.ok)

\* the identifiers of the origin records that have one, in origin order
RECURSIVE IdentifiedIds(_)
IdentifiedIds(studies) ==
    IF studies = <<>> THEN <<>>
    ELSE (IF studies[1].nctId # Null THEN <<studies[1].nctId>> ELSE <<>>)
         \o IdentifiedIds(Tail(studies))

\* C16: a match response carries method 'graph' and exactly the graph results
\* with their scores when the graph query is non-empty, and method
\* 'api_fallback' with exactly one entry per origin record that has an
\* identifier, in origin order, each with score 0, when the graph query is empty
\* and the origin succeeds.
C16_Provenance ==
    (last.op \in SmartOps /\ last.queried) =>
       /\ Len(last.graphResults) >= 1 =>
             /\ last.ret.success
             /\ last.ret.method = "graph"
             /\ last.ret.matches = last.graphResults
             /\ last.ret.totalMatches = Len(last.graphResults)
             /\ \A k \in DOMAIN last.ret.matches :
                   last.ret.matches[k].matchScore > 0
       /\ (Len(last.graphResults) = 0 /\ last.response.ok) =>
             /\ last.ret.success
             /\ last.ret.method = "api_fallback"
             /\ [k \in DOMAIN last.ret.matches |-> last.ret.matches[k].nctId]
                   = IdentifiedIds(last.response.studies)
             /\ last.ret.totalMatches = Len(last.ret.matches)
             /\ \A k \in DOMAIN last.ret.matches :
                   last.ret.matches[k].matchScore = 0

\* C16 witness: the graph was empty and the origin returned NCT1 and NCT2: two
\* results, both with score 0, both cached.
C16_Witness ==
    /\ last.op = "call_smart_match_internal"
    /\ last.queried
    /\ last.graphResults = <<>>
    /\ last.response = OriginBody(TRUE, <<StudyA, StudyF>>)
    /\ last.ret.method = "api_fallback"
    /\ Len(last.ret.matches) = 2
    /\ last.ret.matches[1].nctId = NCT1 /\ last.ret.matches[1].matchScore = 0
    /\ last.ret.matches[2].nctId = NCT2 /\ last.ret.matches[2].matchScore = 0
    /\ last.ret.matches[2].title = <<"Unknown Title">>
    /\ last.cached = <<"True", "True">>
    /\ Len(cache) = 2

C16_RecordSkippedReached ==
    /\ last.op \in SmartOps
    /\ last.queried
    /\ last.graphResults = <<>>
    /\ last.response = OriginBody(TRUE, <<StudyNoId, StudyF>>)
    /\ Len(last.ret.matches) = 1
    /\ last.ret.matches[1].nctId = NCT2

C16_GraphMethodReached ==
    /\ last.op \in SmartOps
    /\ last.queried
    /\ Len(last.graphResults) >= 1
    /\ last.ret.method = "graph"
    /\ last.ret.matches[1].matchScore = 25

---------------------------------------------------------------------------
(* Claims about related trials and recommendations *)

\* the conditions (locations) that two trials of the graph both point to
CommonConditions(i, j) ==
    {c \in DOMAIN conditionNodes :
        /\ BagIn([from |-> i, to |-> c], treats)
        /\ BagIn([from |-> j, to |-> c], treats)}

CommonLocations(i, j) ==
    {l \in DOMAIN locationNodes :
        /\ BagIn([from |-> i, to |-> l], locatedIn)
        /\ BagIn([from |-> j, to |-> l], locatedIn)}

\* the trials the claim calls related to trial i
RelatedTo(i) ==
    {j \in DOMAIN trialNodes :
        /\ trialNodes[j].nctId # trialNodes[i].nctId
        /\ (CommonConditions(i, j) # {} \/ CommonLocations(i, j) # {})}

RelatedScore(i, j) ==
    3 * Cardinality(CommonConditions(i, j)) + Cardinality(CommonLocations(i, j))

\* C17: find_related_trials(id, limit) returns the trials other than id that
\* share at least one Condition or at least one Location with trial id, each
\* scored 3 x |shared conditions| + |shared locations|, ordered by score
\* descending and truncated to limit; the reference trial is never returned.
C17_RelatedTrials ==
    (last.op = "find_related_trials" /\ MatchTrial(Graph, last.nct_id) # {}) =>
       LET i == CHOOSE i \in MatchTrial(Graph, last.nct_id) : TRUE
           ret == last.ret
           Pos(k) == CHOOSE j \in MatchTrial(Graph, ret[k].nctId) : TRUE
       IN /\ \A k \in DOMAIN ret :
                /\ ret[k].nctId # last.nct_id
                /\ MatchTrial(Graph, ret[k].nctId) # {}
                /\ Pos(k) \in RelatedTo(i)
                /\ ret[k].relationshipScore = RelatedScore(i, Pos(k))
          /\ \A a, b \in DOMAIN ret :
                a < b => ret[a].relationshipScore >= ret[b].relationshipScore
          /\ Len(ret) = IF Cardinality(RelatedTo(i)) < last.limit
                        THEN Cardinality(RelatedTo(i)) ELSE last.limit
          /\ \A j \in RelatedTo(i) :
                (\A k \in DOMAIN ret : ret[k].nctId # trialNodes[j].nctId) =>
                   \A k \in DOMAIN ret :
                      RelatedScore(i, j) <= ret[k].relationshipScore

\* the patient node of the last recommendation request
AskedPatient == CHOOSE p \in MatchPatient(Graph, last.user_id) : TRUE

SavedBy(p) ==
    {t \in DOMAIN trialNodes :
        \E e \in BagToSet(savedTrial) : e.from = p /\ e.to = t}

\* the names of the patient's conditions that trial t treats
TreatedConditionsOf(p, t) ==
    {conditionNodes[c].name : c \in {c \in DOMAIN conditionNodes :
        /\ BagIn([from |-> p, to |-> c], hasCondition)
        /\ BagIn([from |-> t, to |-> c], treats)}}

\* C18: get_patient_recommendations never returns a trial to which the patient
\* has a SAVED_TRIAL relationship, and saved trials do not change the score of
\* any other trial.
C18_SavedTrialsExcluded ==
    (last.op = "get_patient_recommendations"
        /\ MatchPatient(Graph, last.user_id) # {}) =>
       \A k \in DOMAIN last.ret :
          \A t \in MatchTrial(Graph, last.ret[k].nctId) :
             /\ t \notin SavedBy(AskedPatient)
             /\ last.ret[k].matchScore
                   = Cardinality(TreatedConditionsOf(AskedPatient, t))

\* C19: every entry returned by get_patient_recommendations is an existing Trial
\* node with status RECRUITING that treats at least one Condition the patient
\* has; its score is the number of the patient's conditions that trial treats;
\* entries are ordered by score descending; a patient condition treated by no
\* RECRUITING trial produces no entry.
C19_Recommendations ==
    (last.op = "get_patient_recommendations"
        /\ MatchPatient(Graph, last.user_id) # {}) =>
       /\ \A k \in DOMAIN last.ret :
             /\ MatchTrial(Graph, last.ret[k].nctId) # {}
             /\ \A t \in MatchTrial(Graph, last.ret[k].nctId) :
                   /\ trialNodes[t].status = RECRUITING
                   /\ TreatedConditionsOf(AskedPatient, t) # {}
                   /\ last.ret[k].matchScore
                         = Cardinality(TreatedConditionsOf(AskedPatient, t))
                   /\ last.ret[k].matchingConditions
                         = TreatedConditionsOf(AskedPatient, t)
       /\ \A a, b \in DOMAIN last.ret :
             a < b => last.ret[a].matchScore >= last.ret[b].matchScore

---------------------------------------------------------------------------
(* Claims about the cache search *)

\* `part` occurs in `text`, letter case aside
ContainsIgnoringCase(text, part) ==
    \E pos \in 1..(Len(text) - Len(part) + 1) :
       ToLower(SubSeq(text, pos, pos + Len(part) - 1)) = ToLower(part)

\* the stored documents that are not expired and satisfy every supplied filter
Satisfies(doc, condition, location, status) ==
    /\ ~Expired(doc, now)
    /\ Truthy(condition) =>
          \E k \in DOMAIN doc.searchableFields.conditions :
             ContainsIgnoringCase(doc.searchableFields.conditions[k], condition)
    /\ Truthy(location) =>
          \E k \in DOMAIN doc.searchableFields.locations :
             ContainsIgnoringCase(doc.searchableFields.locations[k], location)
    /\ Truthy(status) => doc.searchableFields.status = status

\* C20: search_cached_trials returns at most `limit` documents, none of them
\* expired, each satisfying every supplied filter (condition and location
\* contained case-insensitively in the searchable fields, status matched
\* exactly); an absent or empty filter constrains nothing, so with no filters
\* every non-expired document is eligible.
C20_Search ==
    [][(last'.op = "search_cached_trials" /\ now' = now) =>
          LET eligible == {k \in DOMAIN cache :
                             Satisfies(cache[k], last'.condition, last'.location,
                                       last'.status)}
          IN /\ Len(last'.ret) <= last'.limit
             /\ \A k \in DOMAIN last'.ret :
                   \E i \in eligible : cache[i] = last'.ret[k]
             /\ Len(last'.ret) = IF Cardinality(eligible) < last'.limit
                                 THEN Cardinality(eligible) ELSE last'.limit]_vars

\* the documents a read at the current time would find too old
ExpiredDocs == {k \in DOMAIN cache : Expired(cache[k], now)}

\* C21: a cache document older than the 7-day window is absent to every read:
\* get_cached_trial and search_cached_trials treat it as a miss and remove it
\* from the store.
C21_ExpiredAbsentToReads ==
    [][(now' = now) =>
          /\ last'.op = "get_cached_trial" =>
                \A k \in ExpiredDocs :
                   cache[k].nctId = last'.nct_id =>
                      /\ last'.outcome # "hit"
                      /\ FindDocs(cache', last'.nct_id) = {}
          /\ last'.op = "search_cached_trials" =>
                \A k \in ExpiredDocs :
                   /\ \A j \in DOMAIN last'.ret : last'.ret[j] # cache[k]
                   /\ SearchQuery(cache[k], cache[k].cachedAt, last'.condition,
                                  last'.location, last'.status)
                         => FindDocs(cache', cache[k].nctId) = {}]_vars

---------------------------------------------------------------------------
(* Claims about requests that run at the same time *)

AllIdle == \A r \in Requests : inflight[r] = Idle

\* the Trial node carries the title, status and phase of record d
TrialFieldsOf(node, d) ==
    /\ node.nctId = d.nctId
    /\ node.title = Get(d.briefTitle, <<>>)
    /\ node.status = Get(d.overallStatus, <<>>)
    /\ node.phase = Get(d.phases, <<>>)

\* C22: when two requests cache the same trial identifier at the same time, then
\* whatever the interleaving of their store calls there is one cache document
\* and one Trial node for the identifier, no duplicate Condition or Location
\* node and no duplicate TREATS or LOCATED_IN edge, and once both have finished
\* the stored fields are those of one of the two writes.
C22_RaceLeavesOneOfEach ==
    /\ Unique(cache, KeyNctId)
    /\ Unique(trialNodes, KeyNctId)
    /\ Unique(conditionNodes, KeyName)
    /\ Unique(locationNodes, KeyLocationId)
    /\ \A i \in DOMAIN trialNodes, j \in DOMAIN conditionNodes :
          RelCount(treats, i, j) <= 1
    /\ \A i \in DOMAIN trialNodes, j \in DOMAIN locationNodes :
          RelCount(locatedIn, i, j) <= 1
    /\ AllIdle =>
          /\ \A i \in DOMAIN cache :
                \E d \in RaceStudies : cache[i] = cache_doc(cache[i].cachedAt, d)
          /\ \A i \in DOMAIN trialNodes :
                \E d \in RaceStudies : TrialFieldsOf(trialNodes[i], d)

\* C22 witness: both requests have finished after interleaving: the cache holds
\* the record of one request and the Trial node the fields of the other.
C22_Witness ==
    /\ AllIdle
    /\ last.op = "cache_trial"
    /\ Len(cache) = 1
    /\ cache[1].protocolSection = StudyA
    /\ Len(trialNodes) = 1
    /\ TrialFieldsOf(trialNodes[1], StudyA2)
    /\ Len(conditionNodes) = 2
    /\ BagCardinality(treats) = 2
    /\ BagCardinality(locatedIn) = 1


(* ---- Claims about the identity and the properties of nodes ---- *)

(* C23: a call of create_location_node never lands on an existing Location
   node of the same city whose stored state or stored country differs from
   the call's: that node is left as it was and the call makes its own node. *)
C23_DistinctLocations ==
    [][last'.op = "create_location_node" =>
         \A i \in DOMAIN locationNodes :
            (/\ locationNodes[i].city = last'.city
             /\ \/ locationNodes[i].state # last'.state
                \/ locationNodes[i].country # last'.country)
            => /\ i \in DOMAIN locationNodes'
               /\ locationNodes'[i] = locationNodes[i]]_vars

(* the same, only for calls and nodes that give one of state and country *)
GivesOne(state, country) == (state = Null) # (country = Null)

C23_OneOfStateAndCountry ==
    [][last'.op = "create_location_node" /\ GivesOne(last'.state, last'.country) =>
         \A i \in DOMAIN locationNodes :
            (/\ locationNodes[i].city = last'.city
             /\ GivesOne(locationNodes[i].state, locationNodes[i].country)
             /\ \/ locationNodes[i].state # last'.state
                \/ locationNodes[i].country # last'.country)
            => locationNodes'[i] = locationNodes[i]]_vars

(* the same, comparing the one value each gives, whichever it is *)
RegionOf(state, country) == IF state # Null THEN state ELSE country

C23_DifferentRegionValue ==
    [][last'.op = "create_location_node" /\ GivesOne(last'.state, last'.country) =>
         \A i \in DOMAIN locationNodes :
            (/\ locationNodes[i].city = last'.city
             /\ GivesOne(locationNodes[i].state, locationNodes[i].country)
             /\ RegionOf(locationNodes[i].state, locationNodes[i].country)
                   # RegionOf(last'.state, last'.country))
            => locationNodes'[i] = locationNodes[i]]_vars

(* C24: every Condition node stores nameNormalized = lowercase(name),
   whichever operation created it. *)
C24_NameNormalized ==
    \A i \in DOMAIN conditionNodes :
        conditionNodes[i].nameNormalized = ToLower(conditionNodes[i].name)

(* ---- Claims about what the projection of a cached trial leaves in the graph ---- *)

NonEmptyString(x) == x # Null /\ x # <<>>

(* C25: after cache_trial has returned True for a record while every graph
   call succeeded, the graph holds a Trial node of the record's identifier with
   its title, status and phase, a TREATS edge from it to a Condition node named
   after every non-empty condition string of the record, and a LOCATED_IN edge
   from it to a Location node whose locationId is each string of the cached
   document's searchableFields.locations. *)
C25_ProjectionComplete ==
    (last.op = "cache_trial" /\ last.ret /\ last.graphUp) =>
       LET d == last.doc
           ts == {i \in DOMAIN trialNodes : trialNodes[i].nctId = d.nctId}
       IN /\ ts # {}
          /\ \A i \in ts : TrialFieldsOf(trialNodes[i], d)
          /\ \A k \in DOMAIN d.conditions :
                NonEmptyString(d.conditions[k]) =>
                   \E i \in ts, j \in DOMAIN conditionNodes :
                      /\ conditionNodes[j].name = d.conditions[k]
                      /\ BagIn([from |-> i, to |-> j], treats)
          /\ \E c \in DOMAIN cache : cache[c].nctId = d.nctId
          /\ \A c \in DOMAIN cache :
                cache[c].nctId = d.nctId =>
                   \A k \in DOMAIN cache[c].searchableFields.locations :
                      \E i \in ts, j \in DOMAIN locationNodes :
                         /\ locationNodes[j].locationId
                               = cache[c].searchableFields.locations[k]
                         /\ BagIn([from |-> i, to |-> j], locatedIn)

C25_Witness ==
    /\ last.op = "cache_trial" /\ last.ret /\ last.graphUp
    /\ last.doc = StudyB
    /\ \E c \in DOMAIN cache :
          /\ cache[c].nctId = NCT2
          /\ cache[c].searchableFields.locations = <<<<"B", ",", " ", "F", "R">>>>
    /\ BagCardinality(locatedIn) >= 1
    /\ BagCardinality(treats) >= 2

NodesKept(before, after, key(_)) ==
    \A i \in DOMAIN before : i \in DOMAIN after /\ key(after[i]) = key(before[i])

EdgesKept(before, after) ==
    \A e \in BagToSet(before) : CopiesIn(e, after) >= CopiesIn(e, before)

(* C26: no operation of the cache and no match query takes a node or an edge
   out of the graph: the reads, lazy expiry, clear_expired_cache and
   clear_all_cache leave the graph exactly as it was, and caching a trial again
   with fewer conditions or locations keeps every node and edge there was. *)
C26_GraphNeverShrinks ==
    [][/\ last'.op \in {"get_cached_trial", "search_cached_trials",
                         "clear_expired_cache", "clear_all_cache",
                         "find_matching_trials"} => graphVars' = graphVars
       /\ NodesKept(trialNodes, trialNodes', KeyNctId)
       /\ NodesKept(conditionNodes, conditionNodes', KeyName)
       /\ NodesKept(locationNodes, locationNodes', KeyLocationId)
       /\ EdgesKept(treats, treats')
       /\ EdgesKept(locatedIn, locatedIn')]_vars

\* a trial cached with two conditions and a location, then cached again with
\* one condition and no location
C26_Witness ==
    /\ last.op = "cache_trial" /\ last.ret /\ last.graphUp
    /\ last.doc = StudyA2
    /\ \E i \in DOMAIN trialNodes : TrialFieldsOf(trialNodes[i], StudyA2)
    /\ BagCardinality(treats) = 2
    /\ BagCardinality(locatedIn) = 1

\* the cache emptied, by expiry or by clearing, under a graph that is not empty
C26_ExpiryReached ==
    /\ last.op = "get_cached_trial" /\ last.outcome = "expired"
    /\ cache = <<>> /\ BagCardinality(treats) = 2

C26_ClearReached ==
    /\ last.op \in {"clear_expired_cache", "clear_all_cache"} /\ last.ret = 1
    /\ cache = <<>> /\ BagCardinality(treats) = 2

(* C27: whenever the smart-match endpoint answers with method 'api_fallback'
   and cached_to_graph true, every trial listed in matches is a Trial node of
   the graph. *)
C27_ListedTrialsInGraph ==
    (/\ last.op = "smart_match_trials"
     /\ last.ret.http = 200
     /\ last.ret.method = "api_fallback"
     /\ last.ret.cached_to_graph) =>
       \A k \in DOMAIN last.ret.matches :
          \E i \in DOMAIN trialNodes :
             trialNodes[i].nctId = last.ret.matches[k].nctId

(* the same for the answers during which both stores took every write and
   cache_trial raised for no record *)
C27_ListedTrialsInGraphWhenStoresUp ==
    (/\ last.op = "smart_match_trials"
     /\ last.ret.http = 200
     /\ last.ret.method = "api_fallback"
     /\ last.ret.cached_to_graph
     /\ \A k \in DOMAIN last.env :
           /\ last.env[k].mongoUp
           /\ last.env[k].graph # "down"
           /\ last.cached[k] # "raised") =>
       \A k \in DOMAIN last.ret.matches :
          \E i \in DOMAIN trialNodes :
             trialNodes[i].nctId = last.ret.matches[k].nctId

\* well-formed records listed while MongoDB refused the writes: cache_trial
\* returned False before projecting them
C27_ListedWithoutNode ==
    /\ last.op = "smart_match_trials"
    /\ last.ret.http = 200
    /\ last.ret.method = "api_fallback"
    /\ last.ret.cached_to_graph
    /\ last.response.studies = <<StudyA, StudyF>>
    /\ last.cached = <<"False", "False">>
    /\ Len(last.ret.matches) = 2
    /\ trialNodes = <<>>

(* C28: while get_cached_trial and a cache_trial refreshing the same identifier
   are in progress together, no step takes out of the cache a document whose
   cachedAt is within the expiry window. *)
C28_FreshNeverDeleted ==
    [][\A k \in DOMAIN cache :
          ~Expired(cache[k], now) =>
             \E j \in DOMAIN cache' : cache'[j].nctId = cache[k].nctId]_vars

\* the refreshed document deleted by the lookup that had read its predecessor
C28_RefreshLost ==
    /\ last.op = "get_cached_trial" /\ last.outcome = "expired"
    /\ cache = <<>>
    /\ \E r \in Requests :
          /\ inflight[r].op = "cache_trial"
          /\ inflight[r].write.cachedAt = now
          /\ Head(inflight[r].pending).f # "update_one"

(* ---- Claims about the bulk copy of the cache to the graph ---- *)

\* sync_trial_to_neo4j for each document of the cache in turn
RECURSIVE PerDocument(_, _, _)
PerDocument(g, t, docs) ==
    IF docs = <<>> THEN g
    ELSE PerDocument(
            sync_trial_to_neo4j(g, t, Head(docs).protocolSection,
                                Len(SyncCalls(Head(docs).protocolSection))).graph,
            t, Tail(docs))

NodeKeys(nodes, key(_)) == {key(nodes[i]) : i \in DOMAIN nodes}

EdgeKeys(edges, from, keyFrom(_), to, keyTo(_)) ==
    {<<keyFrom(from[e.from]), keyTo(to[e.to])>> : e \in BagToSet(edges)}

SameByKey(g, h) ==
    /\ NodeKeys(g.trials, KeyNctId) = NodeKeys(h.trials, KeyNctId)
    /\ NodeKeys(g.conditions, KeyName) = NodeKeys(h.conditions, KeyName)
    /\ NodeKeys(g.locations, KeyLocationId) = NodeKeys(h.locations, KeyLocationId)
    /\ EdgeKeys(g.treats, g.trials, KeyNctId, g.conditions, KeyName)
         = EdgeKeys(h.treats, h.trials, KeyNctId, h.conditions, KeyName)
    /\ EdgeKeys(g.locatedIn, g.trials, KeyNctId, g.locations, KeyLocationId)
         = EdgeKeys(h.locatedIn, h.trials, KeyNctId, h.locations, KeyLocationId)

GraphAfter ==
    [trials |-> trialNodes', conditions |-> conditionNodes',
     locations |-> locationNodes', patients |-> patientNodes',
     treats |-> treats', locatedIn |-> locatedIn', hasCondition |-> hasCondition',
     livesIn |-> livesIn', savedTrial |-> savedTrial', isSubtypeOf |-> isSubtypeOf']

(* C29: sync_trials_from_mongo over the whole cache leaves the graph with the
   same nodes by natural key and the same edges as sync_trial_to_neo4j applied
   to each cached record, whatever the city and region texts are. *)
C29_BulkEqualsPerDocument ==
    [][(last'.op = "sync_trials_from_mongo" /\ last'.limit = 0) =>
          SameByKey(GraphAfter, PerDocument(Graph, now, cache))]_vars

HasCommaSpace(doc) ==
    \E k \in DOMAIN doc.protocolSection.locations :
       LET loc == doc.protocolSection.locations[k]
       IN \/ loc.city # Null /\ FirstCommaSpace(loc.city) # 0
          \/ loc.state # Null /\ FirstCommaSpace(loc.state) # 0
          \/ loc.country # Null /\ FirstCommaSpace(loc.country) # 0

(* the same when no city, state or country of the cached records contains ", " *)
C29_BulkEqualsPerDocumentPlain ==
    [][(/\ last'.op = "sync_trials_from_mongo" /\ last'.limit = 0
        /\ \A k \in DOMAIN cache : ~HasCommaSpace(cache[k])) =>
          SameByKey(GraphAfter, PerDocument(Graph, now, cache))]_vars

\* the bulk copy of a record whose city is "B, C": a Location "B, C" and no edge
C29_CommaCityReached ==
    /\ last.op = "sync_trials_from_mongo" /\ last.limit = 0
    /\ \E k \in DOMAIN cache : cache[k].protocolSection = StudyCommaCity
    /\ locatedIn = EmptyBag
    /\ \E i \in DOMAIN locationNodes : locationNodes[i].locationId = BC

(* C30: projecting a trial leaves the category of every Condition node and the
   latitude and longitude of every Location node that existed before as they
   were. *)
C30_ProjectionKeepsProperties ==
    [][last'.op = "sync_trial_to_neo4j" =>
          /\ \A i \in DOMAIN conditionNodes :
                conditionNodes'[i].category = conditionNodes[i].category
          /\ \A i \in DOMAIN locationNodes :
                /\ locationNodes'[i].latitude = locationNodes[i].latitude
                /\ locationNodes'[i].longitude = locationNodes[i].longitude]_vars

(* the same for the nodes the projected trial does not mention *)
C30_OtherNodesKeepProperties ==
    [][last'.op = "sync_trial_to_neo4j" =>
          /\ \A i \in DOMAIN conditionNodes :
                (\A k \in DOMAIN last'.doc.conditions :
                    last'.doc.conditions[k] # conditionNodes[i].name)
                => conditionNodes'[i] = conditionNodes[i]
          /\ \A i \in DOMAIN locationNodes :
                last'.doc.locations = <<>> => locationNodes'[i] = locationNodes[i]]_vars
====
